---- MODULE Spec2Model ----
(***************************************************************************)
(* Batched extraction-and-validation pipeline of the MCP config extractor. *)
(*                                                                         *)
(*   src/src/llm_validator.py            LLMValidator                      *)
(*   src/src/services/extractor_service.py  ExtractorService               *)
(*                                                                         *)
(* Floats are fixed point: a score x is the integer x * 10000, so that     *)
(* 6.999 is 69990 and the confidence score / 10.0 is exact (0.6999 is      *)
(* 6999).  Confidences use the same unit (0.5 is 5000).                    *)
(***************************************************************************)
EXTENDS Integers, Sequences, FiniteSets, TLC

\* ---------------------------------------------------------------- bounds
\* servers known to the store; a batch is a prefix of them
NumServers == 3
\* largest list handed directly to validate_batch (one above the limit)
MaxConfigs == 11
\* longest "evaluations" array in a model response
MaxEvals == 2
\* scores given to _categorize_by_score range over -1.000 .. ScoreSpan/1000
ScoreSpan == 11000
\* validate_batch calls already made on the validator object (batch_counter)
MaxCounter == 1

\* ------------------------------------------------------ program constants
THRESHOLD_APPROVED == 70000
THRESHOLD_NEEDS_REVIEW == 50000
MAX_BATCH_SIZE == 10
FALLBACK_SCORE == -10000
FALLBACK_CONFIDENCE == 5000
MISSING_SCORE == 0

VARIABLES
    catScore,       \* argument of the last _categorize_by_score call
    catStatus,      \* its return value ("none" before any call)
    batch_counter,  \* LLMValidator.batch_counter
    gatewayCalls,   \* create_completion calls made by the validator
    promptFiles,    \* numbers n of the validation_<n>.txt files written
    validatorCalls, \* validate_batch invocations
    vIn,            \* configs of the last validate_batch invocation
    vResp,          \* what the gateway answered to that invocation
    vOut,           \* what that invocation returned (or that it raised)
    pc,             \* where process_batch stands
    batch,          \* the servers argument of process_batch (server ids)
    task,           \* per server: its process_server task
    valid_results,  \* the list process_batch builds and returns
    persistIdx,     \* position in valid_results of the item being stored
    persistStep,    \* "config" before its config write, "status" after
    mcp_configs,    \* rows of the mcp_configs table, in insertion order
    dbStatus,       \* mcp_servers.status per server
    writeLog,       \* store writes attempted by process_batch, in order
    returned,       \* the list process_batch returned
    completionOrder,\* server ids in the order their tasks ended
    persistRuns,    \* times the storing loop of lines 265-291 was entered
    uniqueServerId, \* the schema has UNIQUE (server_id) on mcp_configs
    retryPc,        \* a decorated create_completion call: idle/calling/returned/failed
    attemptLog,     \* outcome of each attempt against the backend, in order
    retryResult,    \* what the decorated call gave its caller
    reraise,        \* the decorator's reraise flag (standard_retry: TRUE)
    provider,       \* "anthropic" or "openrouter"
    exText,         \* the model's response text, a sequence of characters
    jsonCalls,      \* what each call of extract_json_from_text(exText) gave
    exGateway,      \* how create_completion ended for extract_config
    exResult,       \* what extract_config gave its caller
    drvBatchSize,   \* config.batch_size
    drvNext,        \* the driver's loop: index of the next batch's first server
    drvPhase,       \* where the driver is: loop/extracting/persisting/...
    drvTasks,       \* the current batch's extraction tasks, by server
    drvPersistIdx,  \* position of the sequential persistence loop
    eventLog,       \* every task, validation and store event, in order
    mcp_servers,    \* the mcp_servers table: a row per server id
    statusCall,     \* the update_server_status call made, with the table before it
    queryCall,      \* the get_servers_to_process call made: its limit and its rows
    psCall,         \* the process_server call made: its inputs and what it gave
    promptBuilder,  \* a PromptBuilder: its template, construction and last build
    crawl,          \* a fetch_repo_data_with_retry call: url, attempts, result
    serverRows,     \* CrawlerService: the mcp_servers rows, in insertion order
    contentRows,    \* CrawlerService: the mcp_content rows (server_id, content)
    svcCall,        \* the CrawlerService.process_server call made and its result
    passCall        \* a whole process_batch call on a stored population: inputs, results

catVars == <<catScore, catStatus>>
valVars == <<batch_counter, gatewayCalls, promptFiles, validatorCalls, vIn, vResp, vOut>>
storeVars == <<mcp_configs, dbStatus, writeLog, uniqueServerId>>
batchVars == <<pc, batch, task, valid_results, persistIdx, persistStep, returned,
              completionOrder, persistRuns>>
retryVars == <<retryPc, attemptLog, retryResult, reraise, provider>>
extractVars == <<exText, jsonCalls, exGateway, exResult>>
driverVars == <<drvBatchSize, drvNext, drvPhase, drvTasks, drvPersistIdx, eventLog>>
statusVars == <<mcp_servers, statusCall>>
svcVars == <<serverRows, contentRows, svcCall, passCall>>
repoVars == <<statusVars, queryCall, psCall, promptBuilder, crawl, svcVars>>
auxVars == <<retryVars, extractVars, driverVars, repoVars>>
vars == <<catVars, valVars, storeVars, batchVars, auxVars>>

\* ------------------------------------------------- _categorize_by_score
categorize_by_score_ge_swapped(score) ==
    IF score > THRESHOLD_APPROVED THEN "approved"
    ELSE IF score > THRESHOLD_NEEDS_REVIEW THEN "needs_review"
    ELSE "rejected"

categorize_by_score(score) ==
    IF score >= THRESHOLD_APPROVED THEN "approved"
    ELSE IF score >= THRESHOLD_NEEDS_REVIEW THEN "needs_review"
    ELSE "rejected"

\* score / 10.0
confidence_of(score) == score \div 10

\* ------------------------------------------------------- model responses
\* One entry of the "evaluations" array.  hasIndex = FALSE is an entry
\* whose e["index"] raises (no such key, or not an object).  scoreKind is
\* "num" (a number), "absent" (no "score" key: .get gives 0.0) or "bad"
\* (a string or null: the comparison in _categorize_by_score raises).
EvalIndexes == 0 .. 2
ScoreSamples == {0, 49990, 50000, 69990, 70000, 120000, -20000}

EvalEntries ==
    { [hasIndex |-> TRUE, index |-> i, scoreKind |-> "num", score |-> s] :
        i \in EvalIndexes, s \in ScoreSamples }
    \cup { [hasIndex |-> TRUE, index |-> i, scoreKind |-> k, score |-> 0] :
        i \in EvalIndexes, k \in {"absent", "bad"} }
    \cup { [hasIndex |-> FALSE, index |-> 0, scoreKind |-> "absent", score |-> 0] }

SeqsUpTo(S, n) == UNION { [1 .. k -> S] : k \in 0 .. n }

\* What the gateway and the JSON recovery give the validator:
\*   io_error  the prompt file cannot be written (open() raises)
\*   gw_error  create_completion raises (retries exhausted, no content)
\*   no_json   extract_json_from_text raises ValueError
\*   bad_json  json.loads raises JSONDecodeError
\*   ok        a JSON object whose "evaluations" is evals
NoResp == [kind |-> "none", evals |-> <<>>]
FailureKinds == {"io_error", "gw_error", "no_json", "bad_json"}
FailureResponses == { [kind |-> k, evals |-> <<>>] : k \in FailureKinds }
OkResponses(entries, maxLen) ==
    { [kind |-> "ok", evals |-> es] : es \in SeqsUpTo(entries, maxLen) }

\* ------------------------------------------------------------- verdicts
Verdict(st, sc, conf, iss) ==
    [valid |-> st # "rejected", score |-> sc, confidence |-> conf,
     status |-> st, issues |-> iss, warnings |-> iss]

\* the two fallback lists of lines 165-175 and 181-191
fallback_verdict_rejecting(iss) ==
    [valid |-> FALSE, score |-> MISSING_SCORE, confidence |-> 0,
     status |-> "rejected", issues |-> iss,
     warnings |-> "validation_failed"]

fallback_verdict(iss) ==
    [valid |-> TRUE, score |-> FALLBACK_SCORE, confidence |-> FALLBACK_CONFIDENCE,
     status |-> "needs_review", issues |-> iss,
     warnings |-> "validation_failed"]

fallback_list(n, iss) == [k \in 1 .. n |-> fallback_verdict(iss)]

\* next((e for e in evaluations if e["index"] == i), None):
\* the position of the first entry with index i, 0 when there is none,
\* -1 when an entry without index is met before a match.
RECURSIVE find_eval_from(_, _, _)
find_eval_from(evals, i, p) ==
    IF p > Len(evals) THEN 0
    ELSE IF ~evals[p].hasIndex THEN -1
    ELSE IF evals[p].index = i THEN p
    ELSE find_eval_from(evals, i, p + 1)

find_eval_by_position(evals, i) == IF i + 1 <= Len(evals) THEN i + 1 ELSE 0

find_eval_last_match(evals, i) ==
    LET M == {p \in DOMAIN evals : evals[p].hasIndex /\ evals[p].index = i}
    IN  IF \E p \in DOMAIN evals : ~evals[p].hasIndex THEN -1
        ELSE IF M = {} THEN 0
        ELSE CHOOSE p \in M : \A q \in M : q <= p

find_eval(evals, i) == find_eval_from(evals, i, 1)

\* body of the loop of lines 124-151 for position i (0-based):
\* a verdict, or "raise" when the loop body raises.
missing_as_review(evals, i) ==
    LET p == find_eval(evals, i) IN
    IF p = -1 THEN [kind |-> "raise"]
    ELSE IF p = 0
      THEN [kind |-> "ok",
            v |-> Verdict("needs_review", THRESHOLD_NEEDS_REVIEW,
                          confidence_of(THRESHOLD_NEEDS_REVIEW), "missing")]
    ELSE IF evals[p].scoreKind = "bad" THEN [kind |-> "raise"]
    ELSE LET score == IF evals[p].scoreKind = "absent" THEN MISSING_SCORE
                      ELSE evals[p].score
         IN [kind |-> "ok",
             v |-> Verdict(categorize_by_score(score), score,
                           confidence_of(score), "llm")]

build_result(evals, i) ==
    LET p == find_eval(evals, i) IN
    IF p = -1 THEN [kind |-> "raise"]
    ELSE IF p = 0
      THEN [kind |-> "ok",
            v |-> Verdict(categorize_by_score(MISSING_SCORE), MISSING_SCORE,
                          confidence_of(MISSING_SCORE), "missing")]
    ELSE IF evals[p].scoreKind = "bad" THEN [kind |-> "raise"]
    ELSE LET score == IF evals[p].scoreKind = "absent" THEN MISSING_SCORE
                      ELSE evals[p].score
         IN [kind |-> "ok",
             v |-> Verdict(categorize_by_score(score), score,
                           confidence_of(score), "llm")]

\* lines 122-159: the verdict list, or the generic fallback of lines
\* 177-191 when any iteration raised.
build_results(n, evals) ==
    IF \E i \in 0 .. n - 1 : build_result(evals, i).kind = "raise"
    THEN fallback_list(n, "validation_error")
    ELSE [k \in 1 .. n |-> build_result(evals, k - 1).v]

\* validate_batch(configs) when the environment answers resp.
\* raised: the call raised; counterInc: batch_counter increments;
\* promptWritten: validation_<n>.txt was written; calls: gateway calls.
VOutcome(raised, verdicts, counterInc, promptWritten, calls) ==
    [raised |-> raised, verdicts |-> verdicts, counterInc |-> counterInc,
     promptWritten |-> promptWritten, calls |-> calls]

validate_batch_late_check(configs, resp) ==
    LET n == Len(configs) IN
    IF resp.kind = "io_error" THEN VOutcome(TRUE, <<>>, 1, FALSE, 0)
    ELSE IF n > MAX_BATCH_SIZE THEN VOutcome(TRUE, <<>>, 1, TRUE, 1)
    ELSE IF resp.kind \in {"gw_error", "no_json"}
      THEN VOutcome(FALSE, fallback_list(n, "validation_error"), 1, TRUE, 1)
    ELSE IF resp.kind = "bad_json"
      THEN VOutcome(FALSE, fallback_list(n, "invalid_json"), 1, TRUE, 1)
    ELSE VOutcome(FALSE, build_results(n, resp.evals), 1, TRUE, 1)

validate_batch(configs, resp) ==
    LET n == Len(configs) IN
    IF n > MAX_BATCH_SIZE THEN VOutcome(TRUE, <<>>, 0, FALSE, 0)
    ELSE IF resp.kind = "io_error" THEN VOutcome(TRUE, <<>>, 1, FALSE, 0)
    ELSE IF resp.kind \in {"gw_error", "no_json"}
      THEN VOutcome(FALSE, fallback_list(n, "validation_error"), 1, TRUE, 1)
    ELSE IF resp.kind = "bad_json"
      THEN VOutcome(FALSE, fallback_list(n, "invalid_json"), 1, TRUE, 1)
    ELSE VOutcome(FALSE, build_results(n, resp.evals), 1, TRUE, 1)

NoOut == VOutcome(FALSE, <<>>, 0, FALSE, 0)

\* the validator object after one validate_batch call
ValidatorStep(configs, resp) ==
    LET out == validate_batch(configs, resp) IN
    /\ vIn' = configs
    /\ vOut' = out
    /\ validatorCalls' = validatorCalls + 1
    /\ batch_counter' = batch_counter + out.counterInc
    /\ gatewayCalls' = gatewayCalls + out.calls
    /\ promptFiles' = IF out.promptWritten
                        THEN promptFiles \cup {batch_counter + out.counterInc}
                        ELSE promptFiles

\* ----------------------------------------------- ExtractorService state
AllServers == 1 .. NumServers

\* A config is the id of the server it was extracted for; None and the
\* empty object {} are the two falsy values a result's config can hold.
NoneCfg == 0
EmptyCfg == -1
Truthy(config) == config > 0

\* What one process_server task ends with:
\*   raise   the coroutine raised (lines 113-116 are outside the try)
\*   error   error variant or caught exception: config None, 'error' set
\*   config  a non-empty config
\*   empty   the model returned {}: config is {} and there is no 'error'
Outcomes == {"raise", "error", "config", "empty"}

BatchStateInit ==
    /\ pc = "idle"
    /\ batch = <<>>
    /\ task = [s \in AllServers |-> "none"]
    /\ valid_results = <<>>
    /\ persistIdx = 0
    /\ persistStep = "none"
    /\ returned = <<>>
    /\ completionOrder = <<>>
    /\ persistRuns = 0

BatchInit ==
    /\ BatchStateInit
    /\ mcp_configs = <<>>
    /\ dbStatus = [s \in AllServers |-> "pending"]
    /\ writeLog = <<>>
    /\ uniqueServerId \in BOOLEAN

ValidatorInit ==
    /\ batch_counter \in 0 .. MaxCounter
    /\ gatewayCalls = 0
    /\ promptFiles = {}
    /\ validatorCalls = 0
    /\ vIn = <<>>
    /\ vResp = NoResp
    /\ vOut = NoOut

CatInit ==
    /\ catScore = 0
    /\ catStatus = "none"

RetryInit ==
    /\ retryPc = "idle"
    /\ attemptLog = <<>>
    /\ retryResult = "none"
    /\ reraise = FALSE
    /\ provider = "anthropic"

NoResult == [kind |-> "none", metadata |-> FALSE, error |-> "none",
             requires_manual_review |-> FALSE, raw_response |-> FALSE]

ExtractInit ==
    /\ exText = <<>>
    /\ jsonCalls = <<>>
    /\ exGateway = "none"
    /\ exResult = NoResult

DriverInit ==
    /\ drvBatchSize = 1
    /\ drvNext = 0
    /\ drvPhase = "idle"
    /\ drvTasks = <<>>
    /\ drvPersistIdx = 0
    /\ eventLog = <<>>

ServerRow(st, s) == [status |-> st, slug |-> s]
NoCall == [server_id |-> 0, validation_status |-> "none", before |-> <<>>]

StatusInit ==
    /\ mcp_servers = [s \in AllServers |-> ServerRow("pending", s)]
    /\ statusCall = NoCall

NoLimit == -1
NoQuery == [done |-> FALSE, limit |-> NoLimit, result |-> {}]

NoProcess == [done |-> FALSE]

NoBuilder == [template |-> {}, readable |-> TRUE, state |-> "none", build |-> "none"]
NoCrawl == [url |-> 0, pc |-> "idle", log |-> <<>>, result |-> "none"]

NoSvcCall == [done |-> FALSE]
NoPass == [done |-> FALSE]
SvcInit ==
    serverRows = <<>> /\ contentRows = {} /\ svcCall = NoSvcCall /\ passCall = NoPass
ToolsInit == promptBuilder = NoBuilder /\ crawl = NoCrawl /\ SvcInit

RepoInit == StatusInit /\ queryCall = NoQuery /\ psCall = NoProcess /\ ToolsInit

AuxInit == RetryInit /\ ExtractInit /\ DriverInit /\ RepoInit

\* ------------------------------------------- SpecCategorize: the function
\* the scores -1.000, -0.999, ... in steps of 0.001
CategorizeInputs == { s * 10 : s \in -1000 .. ScoreSpan }

Categorize ==
    /\ catStatus = "none"
    /\ catStatus' = categorize_by_score(catScore)
    /\ UNCHANGED <<catScore, valVars, storeVars, batchVars, auxVars>>

InitCategorize ==
    /\ catScore \in CategorizeInputs
    /\ catStatus = "none"
    /\ ValidatorInit
    /\ batch_counter = 0
    /\ BatchInit
    /\ AuxInit
NextCategorize == Categorize
SpecCategorize == InitCategorize /\ [][NextCategorize]_vars

\* -------------------------------- SpecValidate: validate_batch on its own
DirectConfigs(n) == [k \in 1 .. n |-> k]

\* list lengths tried: around the evaluation indexes, and around the limit
DirectLengths == (0 .. 3) \cup (MAX_BATCH_SIZE .. MaxConfigs)

ValidateCall ==
    /\ validatorCalls = 0
    /\ \E n \in DirectLengths :
       \E resp \in FailureResponses \cup OkResponses(EvalEntries, MaxEvals) :
         /\ ValidatorStep(DirectConfigs(n), resp)
         /\ vResp' = resp
    /\ UNCHANGED <<catVars, storeVars, batchVars, auxVars>>

InitValidate ==
    CatInit /\ ValidatorInit /\ BatchInit /\ uniqueServerId = FALSE /\ AuxInit
NextValidate == ValidateCall
SpecValidate == InitValidate /\ [][NextValidate]_vars

\* the dict process_server returns (lines 138-144, 152-164, 173-179);
\* status "none": result["extraction"] has no "status" key.
\* The parsed object leaves extract_config with the key _llm_metadata set
\* (llm_extractor.py:59-65): config c becomes c + MetaTag, and
\* config.pop('_llm_metadata', {}) takes the key out again (line 150).
MetaTag == 100
HasMetadata(config) == config >= MetaTag - 1
with_llm_metadata(config) == config + MetaTag
pop_llm_metadata(config) == IF HasMetadata(config) THEN config - MetaTag ELSE config

\* lines 146-164 without the pop
process_server_keeps_metadata(s, outcome) ==
    [server_id |-> s,
     config |-> IF outcome = "config" THEN with_llm_metadata(s)
                ELSE IF outcome = "empty" THEN with_llm_metadata(EmptyCfg)
                ELSE NoneCfg,
     error |-> outcome = "error",
     status |-> "none", score |-> 0, confidence |-> 0,
     issues |-> "none", warnings |-> "none"]

process_server(s, outcome) ==
    [server_id |-> s,
     config |-> IF outcome = "config" THEN pop_llm_metadata(with_llm_metadata(s))
                ELSE IF outcome = "empty"
                  THEN pop_llm_metadata(with_llm_metadata(EmptyCfg))
                ELSE NoneCfg,
     error |-> outcome = "error",
     status |-> "none", score |-> 0, confidence |-> 0,
     issues |-> "none", warnings |-> "none"]

\* lines 209-215: the results that are not exceptions, in input order
RECURSIVE filter_exceptions_stop_at_first(_, _)
filter_exceptions_stop_at_first(servers, t) ==
    IF servers = <<>> \/ t[Head(servers)] = "raise" THEN <<>>
    ELSE <<process_server(Head(servers), t[Head(servers)])>>
         \o filter_exceptions_stop_at_first(Tail(servers), t)

RECURSIVE filter_exceptions(_, _)
filter_exceptions(servers, t) ==
    IF servers = <<>> THEN <<>>
    ELSE (IF t[Head(servers)] = "raise" THEN <<>>
          ELSE <<process_server(Head(servers), t[Head(servers)])>>)
         \o filter_exceptions(Tail(servers), t)

\* line 221: [r["config"] for r in valid_results if r.get("config")]
RECURSIVE configs_to_validate_all(_)
configs_to_validate_all(results) ==
    IF results = <<>> THEN <<>>
    ELSE <<Head(results).config>> \o configs_to_validate_all(Tail(results))

RECURSIVE configs_to_validate(_)
configs_to_validate(results) ==
    IF results = <<>> THEN <<>>
    ELSE (IF Truthy(Head(results).config) THEN <<Head(results).config>> ELSE <<>>)
         \o configs_to_validate(Tail(results))

\* lines 228-252: validation_idx walks the verdicts while the loop walks
\* the results; idx is the number of verdicts consumed so far.
RECURSIVE merge_validations_no_advance(_, _, _)
merge_validations_no_advance(results, validations, idx) ==
    IF results = <<>> THEN <<>>
    ELSE LET r == Head(results) IN
         IF Truthy(r.config)
         THEN LET v == validations[idx + 1] IN
              <<[r EXCEPT !.status = v.status, !.score = v.score,
                          !.confidence = v.confidence, !.issues = v.issues,
                          !.warnings = v.warnings,
                          !.config = IF v.status = "rejected" THEN NoneCfg ELSE @]>>
              \o merge_validations_no_advance(Tail(results), validations, idx)
         ELSE <<[r EXCEPT !.status = "rejected", !.score = 0, !.confidence = 0,
                          !.issues = "extraction_failed", !.warnings = "empty"]>>
              \o merge_validations_no_advance(Tail(results), validations, idx)

RECURSIVE merge_validations(_, _, _)
merge_validations(results, validations, idx) ==
    IF results = <<>> THEN <<>>
    ELSE LET r == Head(results) IN
         IF Truthy(r.config)
         THEN LET v == validations[idx + 1] IN
              <<[r EXCEPT !.status = v.status, !.score = v.score,
                          !.confidence = v.confidence, !.issues = v.issues,
                          !.warnings = v.warnings,
                          !.config = IF v.status = "rejected" THEN NoneCfg ELSE @]>>
              \o merge_validations(Tail(results), validations, idx + 1)
         ELSE <<[r EXCEPT !.status = "rejected", !.score = 0, !.confidence = 0,
                          !.issues = "extraction_failed", !.warnings = "empty"]>>
              \o merge_validations(Tail(results), validations, idx)

\* lines 254-263: the validator raised
validation_failed_rejects(results) ==
    [k \in 1 .. Len(results) |->
        IF Truthy(results[k].config)
        THEN [results[k] EXCEPT !.status = "rejected", !.score = MISSING_SCORE,
                                !.confidence = 0, !.config = NoneCfg,
                                !.issues = "validation_failed",
                                !.warnings = "needs_manual_review"]
        ELSE results[k]]

validation_failed(results) ==
    [k \in 1 .. Len(results) |->
        IF Truthy(results[k].config)
        THEN [results[k] EXCEPT !.status = "needs_review", !.score = FALLBACK_SCORE,
                                !.confidence = FALLBACK_CONFIDENCE,
                                !.issues = "validation_failed",
                                !.warnings = "needs_manual_review"]
        ELSE results[k]]

\* update_server_status, lines 310-316
status_mapping(validation_status) ==
    CASE validation_status = "approved" -> "approved"
      [] validation_status = "needs_review" -> "pending"
      [] validation_status = "rejected" -> "rejected"
      [] OTHER -> "pending"

\* extraction.get('status', 'pending'), line 270
status_of(result) == IF result.status = "none" THEN "pending" ELSE result.status

\* ------------------------------------------------ process_batch, by step
\* lines 200-207: one task per server, gathered
StartBatch ==
    /\ pc = "idle"
    /\ \E n \in 0 .. NumServers :
         /\ batch' = [k \in 1 .. n |-> k]
         /\ task' = [s \in AllServers |-> IF s <= n THEN "running" ELSE "none"]
    /\ pc' = "gathering"
    /\ completionOrder' = <<>>
    /\ UNCHANGED <<valid_results, persistIdx, persistStep, returned, persistRuns>>
    /\ UNCHANGED <<catVars, valVars, storeVars, auxVars>>

\* a process_server task ends, in any order among the running ones
CompleteTask(s) ==
    /\ pc = "gathering"
    /\ task[s] = "running"
    /\ \E o \in Outcomes : task' = [task EXCEPT ![s] = o]
    /\ completionOrder' = Append(completionOrder, s)
    /\ UNCHANGED <<pc, batch, valid_results, persistIdx, persistStep, returned, persistRuns>>
    /\ UNCHANGED <<catVars, valVars, storeVars, auxVars>>

\* gather taken to return as soon as one task has ended
SomeTaskDone == \E k \in 1 .. Len(batch) : task[batch[k]] \in Outcomes

\* `await asyncio.gather(*tasks, return_exceptions=True)` returns when
\* every task has ended
AllTasksDone == \A k \in 1 .. Len(batch) : task[batch[k]] \in Outcomes

\* lines 209-218: gather has returned; exceptions are filtered out
FilterResults ==
    /\ pc = "gathering"
    /\ AllTasksDone
    /\ LET vr == filter_exceptions(batch, task) IN
         /\ valid_results' = vr
         /\ pc' = IF vr = <<>> THEN "returned" ELSE "filtered"
    /\ returned' = <<>>
    /\ UNCHANGED <<batch, task, completionOrder, persistIdx, persistStep, persistRuns>>
    /\ UNCHANGED <<catVars, valVars, storeVars, auxVars>>

\* The model responses tried inside a batch of k configs: each index is
\* scored or omitted, and the array comes in ascending or descending index
\* order.  NoScore marks an omitted index.
PipeScores == {30000, 60000, 80000}
NoScore == -1
PipeEntry(i, sc) == [hasIndex |-> TRUE, index |-> i, scoreKind |-> "num", score |-> sc]

RECURSIVE PipeEvals(_, _, _)
PipeEvals(f, i, k) ==
    IF i >= k THEN <<>>
    ELSE (IF f[i] = NoScore THEN <<>> ELSE <<PipeEntry(i, f[i])>>)
         \o PipeEvals(f, i + 1, k)

Reversed(q) == [p \in 1 .. Len(q) |-> q[Len(q) + 1 - p]]

PipeResponses(k) ==
    FailureResponses
    \cup { [kind |-> "ok", evals |-> PipeEvals(f, 0, k)] :
              f \in [0 .. k - 1 -> PipeScores \cup {NoScore}] }
    \cup { [kind |-> "ok", evals |-> Reversed(PipeEvals(f, 0, k))] :
              f \in [0 .. k - 1 -> PipeScores \cup {NoScore}] }

StartPersist ==
    /\ pc' = "persist"
    /\ persistIdx' = 1
    /\ persistStep' = "config"
    /\ persistRuns' = persistRuns + 1

\* line 225: validate_batch is called and awaited
CallValidator ==
    /\ pc = "filtered"
    /\ configs_to_validate(valid_results) # <<>>
    /\ pc' = "validating"
    /\ UNCHANGED <<batch, task, valid_results, persistIdx, persistStep, returned,
                   completionOrder, persistRuns>>
    /\ UNCHANGED <<catVars, valVars, storeVars, auxVars>>

\* lines 220-252 and 254-263: the validate_batch call ends, verdicts merged
ValidateAndMerge ==
    /\ pc = "validating"
    /\ configs_to_validate(valid_results) # <<>>
    /\ \E resp \in PipeResponses(Len(configs_to_validate(valid_results))) :
         /\ ValidatorStep(configs_to_validate(valid_results), resp)
         /\ LET out == validate_batch(configs_to_validate(valid_results), resp) IN
              valid_results' =
                 IF out.raised THEN validation_failed(valid_results)
                 ELSE merge_validations(valid_results, out.verdicts, 0)
    /\ StartPersist
    /\ UNCHANGED <<batch, task, completionOrder, returned, vResp>>
    /\ UNCHANGED <<catVars, storeVars, auxVars>>

\* line 223 false: nothing to validate, the validator is not called
SkipValidation ==
    /\ pc = "filtered"
    /\ configs_to_validate(valid_results) = <<>>
    /\ StartPersist
    /\ UNCHANGED <<batch, task, completionOrder, valid_results, returned>>
    /\ UNCHANGED <<catVars, valVars, storeVars, auxVars>>

CurrentResult == valid_results[persistIdx]

\* SELECT * FROM mcp_configs WHERE server_id = s finds a row
HasConfigRow(s) == \E k \in 1 .. Len(mcp_configs) : mcp_configs[k].server_id = s

\* lines 273-285: insert_config succeeds
InsertConfig ==
    /\ pc = "persist" /\ persistStep = "config"
    /\ Truthy(CurrentResult.config)
    /\ ~(uniqueServerId /\ HasConfigRow(CurrentResult.server_id))
    /\ mcp_configs' = Append(mcp_configs,
          [server_id |-> CurrentResult.server_id, config |-> CurrentResult.config])
    /\ writeLog' = Append(writeLog, <<"config", CurrentResult.server_id>>)
    /\ persistStep' = "status"
    /\ UNCHANGED <<dbStatus, uniqueServerId, pc, batch, task, completionOrder,
                   valid_results, persistIdx, returned, persistRuns>>
    /\ UNCHANGED <<catVars, valVars, auxVars>>

\* lines 287-288: insert_config raises; the error is logged and dropped
InsertConfigFails ==
    /\ pc = "persist" /\ persistStep = "config"
    /\ Truthy(CurrentResult.config)
    /\ writeLog' = Append(writeLog, <<"config_failed", CurrentResult.server_id>>)
    /\ persistStep' = "status"
    /\ UNCHANGED <<mcp_configs, dbStatus, uniqueServerId, pc, batch, task, completionOrder,
                   valid_results, persistIdx, returned, persistRuns>>
    /\ UNCHANGED <<catVars, valVars, auxVars>>

\* lines 273-291 with update_server_status not waiting for the insert
StatusDueAtAnyStep == pc = "persist"

\* line 291 comes after the `if config:` block of lines 273-288
StatusDue ==
    /\ pc = "persist"
    /\ persistStep = "status" \/ ~Truthy(CurrentResult.config)

\* line 291 and 293: the status write; after the last item, return
UpdateStatus ==
    /\ StatusDue
    /\ dbStatus' = [dbStatus EXCEPT ![CurrentResult.server_id] =
                       status_mapping(status_of(CurrentResult))]
    /\ writeLog' = Append(writeLog, <<"status", CurrentResult.server_id>>)
    /\ IF persistIdx = Len(valid_results)
       THEN /\ pc' = "returned"
            /\ returned' = valid_results
            /\ persistIdx' = 0
            /\ persistStep' = "none"
       ELSE /\ persistIdx' = persistIdx + 1
            /\ persistStep' = "config"
            /\ UNCHANGED <<pc, returned>>
    /\ UNCHANGED <<mcp_configs, uniqueServerId, batch, task, completionOrder,
                   valid_results, persistRuns>>
    /\ UNCHANGED <<catVars, valVars, auxVars>>

\* line 319 raises: the error leaves process_batch
UpdateStatusFails ==
    /\ StatusDue
    /\ writeLog' = Append(writeLog, <<"status_failed", CurrentResult.server_id>>)
    /\ pc' = "raised"
    /\ UNCHANGED <<mcp_configs, dbStatus, uniqueServerId, batch, task, completionOrder,
                   valid_results, persistIdx, persistStep, returned, persistRuns>>
    /\ UNCHANGED <<catVars, valVars, auxVars>>

\* one pass inserts at most one row per server, so the schema's
\* uniqueness plays no part in it
Init ==
    /\ CatInit /\ ValidatorInit /\ batch_counter = 0 /\ BatchInit /\ AuxInit
    /\ uniqueServerId = FALSE

Next ==
    \/ StartBatch
    \/ \E s \in AllServers : CompleteTask(s)
    \/ FilterResults
    \/ CallValidator
    \/ ValidateAndMerge
    \/ SkipValidation
    \/ InsertConfig
    \/ InsertConfigFails
    \/ UpdateStatus
    \/ UpdateStatusFails

Spec == Init /\ [][Next]_vars

\* ------------------------------ SpecRepersist: the storing loop run again
\* The caller hands a batch of one server to process_batch a second time
\* and extraction and verdict come out as before: lines 265-291 run again
\* on the same finalized result.
PersistAgain ==
    /\ pc = "returned"
    /\ persistRuns = 1
    /\ Len(returned) = 1
    /\ StartPersist
    /\ returned' = <<>>
    /\ UNCHANGED <<batch, task, completionOrder, valid_results>>
    /\ UNCHANGED <<catVars, valVars, storeVars, auxVars>>

InitRepersist ==
    CatInit /\ ValidatorInit /\ batch_counter = 0 /\ BatchInit /\ AuxInit
NextRepersist == Next \/ PersistAgain
SpecRepersist == InitRepersist /\ [][NextRepersist]_vars

\* ------------------------------------- SpecRetry: one decorated API call
\* src/src/retry_utils.py wraps create_completion in tenacity's
\* retry(stop=stop_after_attempt(3), wait=wait_exponential(...), reraise=...).
\* No retry= predicate is given, so every exception an attempt raises is
\* retried; after the last attempt tenacity raises RetryError, or the
\* attempt's own exception when reraise is set.
STOP_AFTER_ATTEMPT == 3

\* How one attempt of create_completion ends (llm_provider.py:113-132 and
\* 202-221): a response, one of the three logged and re-raised API errors,
\* a credentials error, or any other exception, which is not caught.
TransientErrors == {"timeout", "rate_limit", "api_error"}
NonRetryableErrors == {"auth_error", "other_error"}
AttemptOutcomes == {"ok"} \cup TransientErrors \cup NonRetryableErrors

\* tenacity after an attempt: attempt_number attempts were made and the
\* last one ended with outcome.
retry_decision_four_attempts(attempt_number, outcome, rr) ==
    IF outcome = "ok" THEN [pc |-> "returned", result |-> "response"]
    ELSE IF attempt_number > STOP_AFTER_ATTEMPT
      THEN [pc |-> "failed", result |-> IF rr THEN outcome ELSE "RetryError"]
    ELSE [pc |-> "calling", result |-> "none"]

\* api_retry_no_reraise used for both flavours
retry_decision_never_reraises(attempt_number, outcome, rr) ==
    IF outcome = "ok" THEN [pc |-> "returned", result |-> "response"]
    ELSE IF attempt_number >= STOP_AFTER_ATTEMPT
      THEN [pc |-> "failed", result |-> "RetryError"]
    ELSE [pc |-> "calling", result |-> "none"]

retry_decision(attempt_number, outcome, rr) ==
    IF outcome = "ok" THEN [pc |-> "returned", result |-> "response"]
    ELSE IF attempt_number >= STOP_AFTER_ATTEMPT
      THEN [pc |-> "failed", result |-> IF rr THEN outcome ELSE "RetryError"]
    ELSE [pc |-> "calling", result |-> "none"]

\* the caller invokes the decorated function
CallCompletion ==
    /\ retryPc = "idle"
    /\ retryPc' = "calling"
    /\ UNCHANGED <<attemptLog, retryResult, reraise, provider>>
    /\ UNCHANGED <<catVars, valVars, storeVars, batchVars, extractVars, driverVars, repoVars>>

\* one attempt against the backend, then tenacity's decision
Attempt ==
    /\ retryPc = "calling"
    /\ \E o \in AttemptOutcomes :
         LET d == retry_decision(Len(attemptLog) + 1, o, reraise) IN
         /\ attemptLog' = Append(attemptLog, o)
         /\ retryPc' = d.pc
         /\ retryResult' = d.result
    /\ UNCHANGED <<reraise, provider>>
    /\ UNCHANGED <<catVars, valVars, storeVars, batchVars, extractVars, driverVars, repoVars>>

InitRetry ==
    /\ CatInit /\ ValidatorInit /\ batch_counter = 0 /\ BatchInit
    /\ uniqueServerId = FALSE
    /\ retryPc = "idle"
    /\ attemptLog = <<>>
    /\ retryResult = "none"
    /\ reraise \in BOOLEAN
    /\ provider \in {"anthropic", "openrouter"}
    /\ ExtractInit /\ DriverInit /\ RepoInit
NextRetry == CallCompletion \/ Attempt
SpecRetry == InitRetry /\ [][NextRetry]_vars

\* --------------------------- SpecExtractor: JSON recovery and extraction
\* Text is a sequence of characters.  "x" stands for a character of prose
\* and "m" for the members of a JSON object (as in {"name": "a"}).
MaxTokens == 4
MaxJsonCalls == 2

Whitespace == {" ", "\n"}
Backtick == "backtick"
FenceJson == <<Backtick, Backtick, Backtick, "j", "s", "o", "n">>
Fence == <<Backtick, Backtick, Backtick>>
Tokens == {FenceJson, Fence, <<"{">>, <<"}">>, <<" ">>, <<"x">>, <<"m">>}

RECURSIVE Flatten(_)
Flatten(ts) == IF ts = <<>> THEN <<>> ELSE Head(ts) \o Flatten(Tail(ts))

ExtractInputs == { Flatten(ts) : ts \in SeqsUpTo(Tokens, MaxTokens) }

\* str.strip()
RECURSIVE lstrip(_)
lstrip(t) ==
    IF t # <<>> /\ Head(t) \in Whitespace THEN lstrip(Tail(t)) ELSE t

RECURSIVE rstrip(_)
rstrip(t) ==
    IF t # <<>> /\ t[Len(t)] \in Whitespace
      THEN rstrip(SubSeq(t, 1, Len(t) - 1)) ELSE t

strip(t) == rstrip(lstrip(t))

startswith(t, prefix) ==
    Len(t) >= Len(prefix) /\ SubSeq(t, 1, Len(prefix)) = prefix

endswith(t, suffix) ==
    Len(t) >= Len(suffix)
      /\ SubSeq(t, Len(t) - Len(suffix) + 1, Len(t)) = suffix

\* str.find and str.rfind: a 0-based index, -1 when the character is absent
find(t, c) ==
    IF \E i \in 1 .. Len(t) : t[i] = c
      THEN (CHOOSE i \in 1 .. Len(t) :
               t[i] = c /\ \A j \in 1 .. i - 1 : t[j] # c) - 1
      ELSE -1

rfind(t, c) ==
    IF \E i \in 1 .. Len(t) : t[i] = c
      THEN (CHOOSE i \in 1 .. Len(t) :
               t[i] = c /\ \A j \in i + 1 .. Len(t) : t[j] # c) - 1
      ELSE -1

\* text[a:b] for 0 <= a, 0 <= b
slice(t, a, b) == SubSeq(t, a + 1, IF b > Len(t) THEN Len(t) ELSE b)

ValueError == [ok |-> FALSE, text |-> <<>>]

\* utils.py:51-73 with the closing brace searched from the left
extract_json_first_close(text) ==
    LET t1 == strip(text)
        t2 == IF startswith(t1, FenceJson) THEN slice(t1, 7, Len(t1)) ELSE t1
        t3 == IF startswith(t2, Fence) THEN slice(t2, 3, Len(t2)) ELSE t2
        t4 == IF endswith(t3, Fence) THEN slice(t3, 0, Len(t3) - 3) ELSE t3
        t5 == strip(t4)
        first_brace == find(t5, "{")
        last_brace == find(t5, "}")
    IN  IF first_brace = -1 \/ last_brace = -1 THEN ValueError
        ELSE [ok |-> TRUE,
              text |-> strip(slice(t5, first_brace, last_brace + 1))]

extract_json_from_text(text) ==
    LET t1 == strip(text)
        t2 == IF startswith(t1, FenceJson) THEN slice(t1, 7, Len(t1)) ELSE t1
        t3 == IF startswith(t2, Fence) THEN slice(t2, 3, Len(t2)) ELSE t2
        t4 == IF endswith(t3, Fence) THEN slice(t3, 0, Len(t3) - 3) ELSE t3
        t5 == strip(t4)
        first_brace == find(t5, "{")
        last_brace == rfind(t5, "}")
    IN  IF first_brace = -1 \/ last_brace = -1 THEN ValueError
        ELSE [ok |-> TRUE,
              text |-> strip(slice(t5, first_brace, last_brace + 1))]

\* json.loads accepts the text when it is one object: braces around
\* nothing or around members, whitespace allowed between them.
json_loads_ok(t) ==
    SelectSeq(t, LAMBDA c : c \notin Whitespace)
        \in {<<"{", "}">>, <<"{", "m", "}">>}

\* How create_completion ends for extract_config: a response with text, a
\* response whose content is None, RetryError after the retries, or
\* another exception.
GatewayOutcomes == {"response", "null_content", "RetryError", "other_error"}

ParsedConfig == [kind |-> "config", metadata |-> TRUE, error |-> "none",
                 requires_manual_review |-> FALSE, raw_response |-> FALSE]
InvalidJsonVariant ==
    [kind |-> "error", metadata |-> FALSE, error |-> "Invalid JSON from LLM",
     requires_manual_review |-> TRUE, raw_response |-> TRUE]
ExtractionFailedVariant ==
    [kind |-> "error", metadata |-> FALSE, error |-> "Extraction failed",
     requires_manual_review |-> TRUE, raw_response |-> FALSE]
Raised == [kind |-> "raised", metadata |-> FALSE, error |-> "none",
           requires_manual_review |-> FALSE, raw_response |-> FALSE]

\* llm_extractor.py:43-96 with a handler for JSONDecodeError only
extract_config_decode_errors_only(gw, text) ==
    IF gw # "response" THEN Raised
    ELSE LET j == extract_json_from_text(text) IN
         IF ~j.ok THEN Raised
         ELSE IF ~json_loads_ok(j.text) THEN InvalidJsonVariant
         ELSE ParsedConfig

extract_config(gw, text) ==
    IF gw # "response" THEN ExtractionFailedVariant
    ELSE LET j == extract_json_from_text(text) IN
         IF ~j.ok THEN ExtractionFailedVariant
         ELSE IF ~json_loads_ok(j.text) THEN InvalidJsonVariant
         ELSE ParsedConfig

ExtractJson ==
    /\ Len(jsonCalls) < MaxJsonCalls
    /\ jsonCalls' = Append(jsonCalls, extract_json_from_text(exText))
    /\ UNCHANGED <<exText, exGateway, exResult>>
    /\ UNCHANGED <<catVars, valVars, storeVars, batchVars, retryVars, driverVars, repoVars>>

ExtractConfig ==
    /\ exGateway = "none"
    /\ \E gw \in GatewayOutcomes :
         /\ exGateway' = gw
         /\ exResult' = extract_config(gw, exText)
    /\ UNCHANGED <<exText, jsonCalls>>
    /\ UNCHANGED <<catVars, valVars, storeVars, batchVars, retryVars, driverVars, repoVars>>

InitExtractor ==
    /\ CatInit /\ ValidatorInit /\ batch_counter = 0 /\ BatchInit
    /\ uniqueServerId = FALSE
    /\ RetryInit /\ DriverInit /\ RepoInit
    /\ exText \in ExtractInputs
    /\ jsonCalls = <<>>
    /\ exGateway = "none"
    /\ exResult = NoResult
NextExtractor == ExtractJson \/ ExtractConfig
SpecExtractor == InitExtractor /\ [][NextExtractor]_vars

\* ------------------------------------ SpecDriver: the loop over batches
\* run_extractor.py:304-346 slices the servers into batches and awaits
\* process_batch for each; process_batch gathers the extraction tasks,
\* validates once and then persists item by item.
DriverServers == 4
DriverBatchSizes == 1 .. 3
TaskOutcomes == {"config", "noconfig", "raised"}

\* servers[i:i+batch_size], by position 1..DriverServers
driver_batch(i, size) == { s \in 1 .. DriverServers : i < s /\ s <= i + size }

\* the batch in progress; drvNext is already the next value of range()
CurrentBatchNum == drvNext \div drvBatchSize

\* the loop body starts over although process_batch is still running
process_batch_not_awaited(phase) ==
    phase \in {"loop", "extracting", "persisting"}

\* `results = await extractor_service.process_batch(batch, i, total)`: the
\* loop goes on only after process_batch has returned
process_batch_awaited(phase) == phase = "loop"

ValidTasks == { s \in DOMAIN drvTasks : drvTasks[s] \in {"config", "noconfig"} }
KthValid(k) ==
    CHOOSE s \in ValidTasks : Cardinality({u \in ValidTasks : u < s}) = k - 1
Event(kind) == [batch |-> CurrentBatchNum, kind |-> kind]

\* next iteration of the for loop: process_batch creates the tasks
DrvNextBatch ==
    /\ process_batch_awaited(drvPhase)
    /\ drvNext < DriverServers
    /\ drvTasks' = [s \in driver_batch(drvNext, drvBatchSize) |-> "pending"]
    /\ drvNext' = drvNext + drvBatchSize
    /\ drvPhase' = "extracting"
    /\ drvPersistIdx' = 0
    /\ eventLog' = Append(eventLog,
           [batch |-> drvNext \div drvBatchSize + 1, kind |-> "tasks_started"])
    /\ UNCHANGED drvBatchSize
    /\ UNCHANGED <<catVars, valVars, storeVars, batchVars, retryVars, extractVars, repoVars>>

\* one extraction task of the batch ends
DrvTaskDone(s) ==
    /\ drvPhase = "extracting"
    /\ s \in DOMAIN drvTasks
    /\ drvTasks[s] = "pending"
    /\ \E o \in TaskOutcomes : drvTasks' = [drvTasks EXCEPT ![s] = o]
    /\ eventLog' = Append(eventLog, Event("task_done"))
    /\ UNCHANGED <<drvBatchSize, drvNext, drvPhase, drvPersistIdx>>
    /\ UNCHANGED <<catVars, valVars, storeVars, batchVars, retryVars, extractVars, repoVars>>

\* gather returns: filter exceptions, return [] when nothing is left,
\* otherwise validate the configs in one call and go on to persist
DrvGathered ==
    /\ drvPhase = "extracting"
    /\ \A s \in DOMAIN drvTasks : drvTasks[s] # "pending"
    /\ IF ValidTasks = {}
         THEN /\ drvPhase' = "loop"
              /\ eventLog' = Append(eventLog, Event("returned"))
              /\ UNCHANGED drvPersistIdx
         ELSE /\ drvPhase' = "persisting"
              /\ drvPersistIdx' = 1
              /\ eventLog' =
                   IF \E s \in ValidTasks : drvTasks[s] = "config"
                     THEN Append(eventLog, Event("validate"))
                     ELSE eventLog
    /\ UNCHANGED <<drvBatchSize, drvNext, drvTasks>>
    /\ UNCHANGED <<catVars, valVars, storeVars, batchVars, retryVars, extractVars, repoVars>>

\* one turn of the persistence loop: insert_config when the item has a
\* config, then update_server_status
DrvWrite ==
    /\ drvPhase = "persisting"
    /\ drvPersistIdx <= Cardinality(ValidTasks)
    /\ eventLog' =
         (IF drvTasks[KthValid(drvPersistIdx)] = "config"
            THEN Append(eventLog, Event("config_write")) ELSE eventLog)
         \o <<Event("status_write")>>
    /\ drvPersistIdx' = drvPersistIdx + 1
    /\ UNCHANGED <<drvBatchSize, drvNext, drvPhase, drvTasks>>
    /\ UNCHANGED <<catVars, valVars, storeVars, batchVars, retryVars, extractVars, repoVars>>

\* update_server_status raises: nothing catches it in process_batch or in
\* the loop, so the run ends
DrvWriteFails ==
    /\ drvPhase = "persisting"
    /\ drvPersistIdx <= Cardinality(ValidTasks)
    /\ eventLog' = Append(eventLog, Event("status_write_failed"))
    /\ drvPhase' = "aborted"
    /\ UNCHANGED <<drvBatchSize, drvNext, drvTasks, drvPersistIdx>>
    /\ UNCHANGED <<catVars, valVars, storeVars, batchVars, retryVars, extractVars, repoVars>>

\* process_batch returns its results to the loop
DrvReturn ==
    /\ drvPhase = "persisting"
    /\ drvPersistIdx > Cardinality(ValidTasks)
    /\ drvPhase' = "loop"
    /\ eventLog' = Append(eventLog, Event("returned"))
    /\ UNCHANGED <<drvBatchSize, drvNext, drvTasks, drvPersistIdx>>
    /\ UNCHANGED <<catVars, valVars, storeVars, batchVars, retryVars, extractVars, repoVars>>

\* range() is exhausted: statistics and exit
DrvFinish ==
    /\ drvPhase = "loop"
    /\ drvNext >= DriverServers
    /\ drvPhase' = "finished"
    /\ UNCHANGED <<drvBatchSize, drvNext, drvTasks, drvPersistIdx, eventLog>>
    /\ UNCHANGED <<catVars, valVars, storeVars, batchVars, retryVars, extractVars, repoVars>>

InitDriver ==
    /\ CatInit /\ ValidatorInit /\ batch_counter = 0 /\ BatchInit
    /\ uniqueServerId = FALSE
    /\ RetryInit /\ ExtractInit /\ RepoInit
    /\ drvBatchSize \in DriverBatchSizes
    /\ drvNext = 0
    /\ drvPhase = "loop"
    /\ drvTasks = <<>>
    /\ drvPersistIdx = 0
    /\ eventLog = <<>>
NextDriver ==
    \/ DrvNextBatch
    \/ \E s \in 1 .. DriverServers : DrvTaskDone(s)
    \/ DrvGathered
    \/ DrvWrite
    \/ DrvWriteFails
    \/ DrvReturn
    \/ DrvFinish
SpecDriver == InitDriver /\ [][NextDriver]_vars

\* ------------------------------ SpecStatus: one update_server_status call
ServerStatuses == {"pending", "approved", "rejected"}
ValidationStatuses ==
    {"approved", "needs_review", "rejected", "pending", "unknown", "APPROVED"}

\* servers_repository.py:152-190 with the WHERE clause left out
update_server_no_where(table, server_id, updates) ==
    IF DOMAIN updates = {} THEN table
    ELSE [s \in DOMAIN table |->
            [f \in DOMAIN table[s] |->
                IF f \in DOMAIN updates THEN updates[f] ELSE table[s][f]]]

\* UPDATE mcp_servers SET <each key of updates> WHERE id = server_id
update_server(table, server_id, updates) ==
    IF DOMAIN updates = {} THEN table
    ELSE [s \in DOMAIN table |->
            IF s # server_id THEN table[s]
            ELSE [f \in DOMAIN table[s] |->
                    IF f \in DOMAIN updates THEN updates[f] ELSE table[s][f]]]

update_server_status(table, server_id, validation_status) ==
    update_server(table, server_id,
                  [status |-> status_mapping(validation_status)])

UpdateServerStatus ==
    /\ statusCall = NoCall
    /\ \E s \in AllServers, vs \in ValidationStatuses :
         /\ mcp_servers' = update_server_status(mcp_servers, s, vs)
         /\ statusCall' = [server_id |-> s, validation_status |-> vs,
                           before |-> mcp_servers]
    /\ UNCHANGED <<catVars, valVars, storeVars, batchVars, retryVars,
                   extractVars, driverVars, queryCall, psCall, promptBuilder, crawl, svcVars>>

InitStatus ==
    /\ CatInit /\ ValidatorInit /\ batch_counter = 0 /\ BatchInit
    /\ uniqueServerId = FALSE
    /\ RetryInit /\ ExtractInit /\ DriverInit
    /\ mcp_servers \in { [s \in AllServers |-> ServerRow(f[s], s)] :
                          f \in [AllServers -> ServerStatuses] }
    /\ statusCall = NoCall
    /\ queryCall = NoQuery
    /\ psCall = NoProcess
    /\ ToolsInit
NextStatus == UpdateServerStatus
SpecStatus == InitStatus /\ [][NextStatus]_vars

\* ------------------------------ SpecQuery: one get_servers_to_process call
\* limit is None (NoLimit) or a number; the mcp_content join is taken to
\* give one row per server.
QueryLimits == {NoLimit} \cup (0 .. NumServers)

\* WHERE cfg.id IS NULL AND s.status != 'rejected'
Unconfigured(servers) ==
    { s \in DOMAIN servers : ~HasConfigRow(s) /\ servers[s].status # "rejected" }

Min(a, b) == IF a < b THEN a ELSE b

\* The row sets the query can give.  `if limit:` adds LIMIT only for a
\* truthy limit, so None and 0 both leave the query unlimited; LIMIT
\* without ORDER BY keeps any `limit` of the rows.
get_servers_to_process(servers, limit) ==
    IF limit = NoLimit \/ limit = 0 THEN {Unconfigured(servers)}
    ELSE { R \in SUBSET Unconfigured(servers) :
             Cardinality(R) = Min(limit, Cardinality(Unconfigured(servers))) }

Query ==
    /\ ~queryCall.done
    /\ \E limit \in QueryLimits :
         \E R \in get_servers_to_process(mcp_servers, limit) :
             queryCall' = [done |-> TRUE, limit |-> limit, result |-> R]
    /\ UNCHANGED <<catVars, valVars, storeVars, batchVars, retryVars,
                   extractVars, driverVars, statusVars, psCall, promptBuilder, crawl, svcVars>>

RECURSIVE ConfigRows(_, _)
ConfigRows(n, C) ==
    IF n = 0 THEN <<>>
    ELSE ConfigRows(n - 1, C)
         \o (IF n \in C THEN <<[server_id |-> n, config |-> n]>> ELSE <<>>)

InitQuery ==
    /\ CatInit /\ ValidatorInit /\ batch_counter = 0 /\ BatchStateInit
    /\ RetryInit /\ ExtractInit /\ DriverInit
    /\ mcp_configs \in { ConfigRows(NumServers, C) : C \in SUBSET AllServers }
    /\ dbStatus = [s \in AllServers |-> "pending"]
    /\ writeLog = <<>>
    /\ uniqueServerId = FALSE
    /\ mcp_servers \in { [s \in AllServers |-> ServerRow(f[s], s)] :
                          f \in [AllServers -> ServerStatuses] }
    /\ statusCall = NoCall
    /\ queryCall = NoQuery
    /\ psCall = NoProcess
    /\ ToolsInit
NextQuery == Query
SpecQuery == InitQuery /\ [][NextQuery]_vars

\* -------------------------------- SpecProcess: one process_server call
\* The server record has its server_id and github_url keys or not, its
\* readme_content is absent, empty or a text; build_prompt returns or
\* raises; extract_config gives one of ExtractionKinds.
ReadmeKinds == {"none", "empty", "text"}
PromptOutcomes == {"ok", "raises"}

\*   raises             the extractor raised
\*   error_variant      {"error": ..., "requires_manual_review": True}
\*   object_with_error  a parsed object that has a truthy "error" field
\*   empty_object       {} parsed, only _llm_metadata in it
\*   object             a parsed config
ExtractionKinds ==
    {"raises", "error_variant", "object_with_error", "empty_object", "object"}

\* lines 113-179 with build_prompt called before the try
server_outcome_prompt_unguarded(hasKeys, prompt, extraction) ==
    IF ~hasKeys THEN "raise"
    ELSE IF prompt = "raises" THEN "raise"
    ELSE IF extraction = "raises" THEN "error"
    ELSE IF extraction \in {"error_variant", "object_with_error"} THEN "error"
    ELSE IF extraction = "empty_object" THEN "empty"
    ELSE "config"

\* which of Outcomes a call ends with: server['server_id'] and
\* server['github_url'] are read before the try (113-114); everything
\* after is inside it (118-179); line 132 takes any result with a truthy
\* 'error' for a failed extraction.
server_outcome(hasKeys, prompt, extraction) ==
    IF ~hasKeys THEN "raise"
    ELSE IF prompt = "raises" THEN "error"
    ELSE IF extraction = "raises" THEN "error"
    ELSE IF extraction \in {"error_variant", "object_with_error"} THEN "error"
    ELSE IF extraction = "empty_object" THEN "empty"
    ELSE "config"

ProcessServer ==
    /\ ~psCall.done
    /\ \E s \in AllServers, hasKeys \in BOOLEAN, readme \in ReadmeKinds,
          prompt \in PromptOutcomes, extraction \in ExtractionKinds :
         LET outcome == server_outcome(hasKeys, prompt, extraction) IN
         psCall' = [done |-> TRUE, server_id |-> s, hasKeys |-> hasKeys,
                    readme |-> readme, prompt |-> prompt,
                    extraction |-> extraction,
                    raised |-> outcome = "raise",
                    result |-> process_server(s, outcome)]
    /\ UNCHANGED <<catVars, valVars, storeVars, batchVars, retryVars,
                   extractVars, driverVars, statusVars, queryCall, promptBuilder, crawl, svcVars>>

InitProcess ==
    /\ CatInit /\ ValidatorInit /\ batch_counter = 0 /\ BatchInit
    /\ uniqueServerId = FALSE
    /\ RetryInit /\ ExtractInit /\ DriverInit
    /\ StatusInit /\ queryCall = NoQuery
    /\ psCall = NoProcess
    /\ ToolsInit
NextProcess == ProcessServer
SpecProcess == InitProcess /\ [][NextProcess]_vars

\* ----------------------------------- SpecPrompt: a PromptBuilder's life
\* A template is the set of replacement fields it references.
SuppliedFields ==
    {"name", "description", "topics", "language", "homepage", "files_content"}
TemplateFields == SuppliedFields \cup {"stars"}

\* __init__ (lines 16-30): open() and read() the template, mkdir; the
\* template's fields are not looked at
construct(template, readable) ==
    IF readable THEN "constructed" ELSE "init_failed"

\* build_prompt (lines 32-80): str.format with the six keyword arguments
\* raises KeyError for any other field; then the prompt file is written
build_prompt(template, writable) ==
    IF ~(template \subseteq SuppliedFields) THEN "KeyError"
    ELSE IF ~writable THEN "OSError"
    ELSE "ok"

Construct ==
    /\ promptBuilder.state = "none"
    /\ promptBuilder' =
         [promptBuilder EXCEPT
            !.state = construct(promptBuilder.template, promptBuilder.readable)]
    /\ UNCHANGED <<catVars, valVars, storeVars, batchVars, retryVars,
                   extractVars, driverVars, statusVars, queryCall, psCall, crawl, svcVars>>

BuildPrompt ==
    /\ promptBuilder.state = "constructed"
    /\ promptBuilder.build = "none"
    /\ \E writable \in BOOLEAN :
         promptBuilder' =
           [promptBuilder EXCEPT
              !.build = build_prompt(promptBuilder.template, writable)]
    /\ UNCHANGED <<catVars, valVars, storeVars, batchVars, retryVars,
                   extractVars, driverVars, statusVars, queryCall, psCall, crawl, svcVars>>

\* (the prompt builder is constructed once, by main_async)
InitPrompt ==
    /\ CatInit /\ ValidatorInit /\ batch_counter = 0 /\ BatchInit
    /\ uniqueServerId = FALSE
    /\ RetryInit /\ ExtractInit /\ DriverInit
    /\ StatusInit /\ queryCall = NoQuery /\ psCall = NoProcess
    /\ crawl = NoCrawl
    /\ SvcInit
    /\ \E t \in SUBSET TemplateFields, r \in BOOLEAN :
         promptBuilder = [template |-> t, readable |-> r,
                          state |-> "none", build |-> "none"]
NextPrompt == Construct \/ BuildPrompt
SpecPrompt == InitPrompt /\ [][NextPrompt]_vars

\* ------------------------ SpecCrawler: one fetch_repo_data_with_retry call
\* github_crawler.py:163-203: the body of the decorated method catches
\* GithubException and Exception and returns an error dict, so an attempt
\* raises only when a handler itself raises (e.data without .get).
HttpStatuses == {403, 404, 500}
FetchOutcomes ==
    {[kind |-> "ok", status |-> 200]}
      \cup [kind : {"github_error", "github_error_no_data"}, status : HttpStatuses]
      \cup {[kind |-> "other_error", status |-> 0]}

\* what one run of the method body gives tenacity
fetch_body(outcome) ==
    CASE outcome.kind = "ok" -> "data"
      [] outcome.kind = "github_error" -> "error_dict"
      [] outcome.kind = "github_error_no_data" -> "AttributeError"
      [] OTHER -> "error_dict"

StartFetch ==
    /\ crawl.pc = "idle"
    /\ \E u \in AllServers : crawl' = [crawl EXCEPT !.url = u, !.pc = "calling"]
    /\ UNCHANGED <<catVars, valVars, storeVars, batchVars, retryVars,
                   extractVars, driverVars, statusVars, queryCall, psCall,
                   promptBuilder, svcVars>>

\* one attempt, then the decision of standard_retry (reraise=True)
FetchAttempt ==
    /\ crawl.pc = "calling"
    /\ \E o \in FetchOutcomes :
         LET body == fetch_body(o)
             d == retry_decision(Len(crawl.log) + 1,
                                 IF body \in {"data", "error_dict"} THEN "ok" ELSE body,
                                 TRUE)
         IN  crawl' = [crawl EXCEPT
                         !.log = Append(@, o),
                         !.pc = d.pc,
                         !.result = IF d.pc = "returned" THEN body ELSE d.result]
    /\ UNCHANGED <<catVars, valVars, storeVars, batchVars, retryVars,
                   extractVars, driverVars, statusVars, queryCall, psCall,
                   promptBuilder, svcVars>>

InitCrawler ==
    /\ CatInit /\ ValidatorInit /\ batch_counter = 0 /\ BatchInit
    /\ uniqueServerId = FALSE
    /\ RetryInit /\ ExtractInit /\ DriverInit
    /\ StatusInit /\ queryCall = NoQuery /\ psCall = NoProcess
    /\ promptBuilder = NoBuilder
    /\ crawl = NoCrawl
    /\ SvcInit
NextCrawler == StartFetch \/ FetchAttempt
SpecCrawler == InitCrawler /\ [][NextCrawler]_vars

\* ------------------- SpecCrawlService: CrawlerService.process_server calls
\* crawler_service.py:47-164.  A github_url is a number; updated_at is the
\* age of the row in half days, so that the whole days of a timedelta are a
\* real conversion; NoUpdatedAt is a NULL updated_at.
GithubUrls == 1 .. 2
NoUpdatedAt == -1
RowAges == {NoUpdatedAt, 13, 14}
RepoData == {"error", "with_readme", "no_readme"}
StoreOutcomes == {"ok", "server_write_fails", "content_write_fails"}
NoServerId == 0

\* timedelta.days of an age
days_since_update(age) == age \div 2

\* servers_repository.py:126-137: the first row of that url, 0 for None
get_server_by_github_url(servers, url) ==
    IF \E i \in DOMAIN servers : servers[i].github_url = url
    THEN CHOOSE i \in DOMAIN servers :
           /\ servers[i].github_url = url
           /\ \A j \in DOMAIN servers : servers[j].github_url = url => i <= j
    ELSE 0

skips_recent_even_when_forced(existing, updated_at, force_update) ==
    /\ existing # 0
    /\ updated_at # NoUpdatedAt
    /\ days_since_update(updated_at) < 7

\* crawler_service.py:81-100: the early return of a recent row
skips_recent(existing, updated_at, force_update) ==
    /\ existing # 0
    /\ ~force_update
    /\ updated_at # NoUpdatedAt
    /\ days_since_update(updated_at) < 7

\* crawler_service.py:220-256: the README row of a server after a crawl
extract_and_store_readme(content, server_id, repo) ==
    IF repo # "with_readme" THEN content
    ELSE {c \in content : c.server_id # server_id}
           \cup {[server_id |-> server_id, content |-> "crawled"]}

\* crawler_service.py:166-184: the row built from the input alone
build_server_data_from_input(url, updated_at) ==
    [github_url |-> url, status |-> "pending", data |-> "input",
     updated_at |-> updated_at]

rejected_server_data_left_pending(url, updated_at) ==
    build_server_data_from_input(url, updated_at)

\* crawler_service.py:122-124: the row inserted after a failed crawl
rejected_server_data(url, updated_at) ==
    [build_server_data_from_input(url, updated_at) EXCEPT !.status = "rejected"]

SvcResult(st, id, msg) == [status |-> st, server_id |-> id, message |-> msg]

\* crawler_service.py:47-164.  touch: whether the store stamps updated_at on
\* the write (the table definition is the store's).
svc_process_server(servers, content, url, force_update, repo, store, touch) ==
    LET existing == get_server_by_github_url(servers, url)
        stamp(old) == IF touch THEN 0 ELSE old
        unexpected == [servers |-> servers, content |-> content, crawled |-> TRUE,
                       result |-> SvcResult("error", NoServerId, "unexpected")]
    IN  IF existing # 0
           /\ skips_recent(existing, servers[existing].updated_at, force_update)
        THEN [servers |-> servers, content |-> content, crawled |-> FALSE,
              result |-> SvcResult("skipped", existing, "skip")]
        ELSE IF repo = "error"
        THEN IF existing # 0
             THEN [servers |-> servers, content |-> content, crawled |-> TRUE,
                   result |-> SvcResult("error", existing, "already exists")]
             ELSE IF store = "server_write_fails" THEN unexpected
             ELSE [servers |-> Append(servers,
                                  rejected_server_data(url, stamp(NoUpdatedAt))),
                   content |-> content, crawled |-> TRUE,
                   result |-> SvcResult("error", Len(servers) + 1, "rejected")]
        ELSE IF store = "server_write_fails" THEN unexpected
        ELSE LET written ==
                   IF existing # 0
                   THEN [servers EXCEPT
                           ![existing] = [github_url |-> url, status |-> "approved",
                                          data |-> "crawled",
                                          updated_at |-> stamp(@.updated_at)]]
                   ELSE Append(servers,
                               [github_url |-> url, status |-> "approved",
                                data |-> "crawled",
                                updated_at |-> stamp(NoUpdatedAt)])
                 server_id == IF existing # 0 THEN existing ELSE Len(servers) + 1
             IN  IF store = "content_write_fails" /\ repo = "with_readme"
                 THEN [unexpected EXCEPT !.servers = written]
                 ELSE [servers |-> written,
                       content |-> extract_and_store_readme(content, server_id, repo),
                       crawled |-> TRUE,
                       result |-> SvcResult("success", server_id, "stored")]

SvcProcessServer ==
    \E url \in GithubUrls, force_update \in BOOLEAN, repo \in RepoData,
       store \in StoreOutcomes, touch \in BOOLEAN :
      LET r == svc_process_server(serverRows, contentRows, url, force_update,
                                  repo, store, touch)
      IN  /\ serverRows' = r.servers
          /\ contentRows' = r.content
          /\ svcCall' = [done |-> TRUE, github_url |-> url,
                         force_update |-> force_update, repo |-> repo,
                         store |-> store,
                         existing |-> get_server_by_github_url(serverRows, url),
                         servers |-> serverRows, content |-> contentRows,
                         crawled |-> r.crawled, result |-> r.result]
          /\ UNCHANGED <<catVars, valVars, storeVars, batchVars, retryVars,
                         extractVars, driverVars, statusVars, queryCall, psCall,
                         promptBuilder, crawl, passCall>>

\* the rows a previous crawl run may have left: one row per url at most
StoredRow(url, age) ==
    [github_url |-> url, status |-> "approved", data |-> "stored", updated_at |-> age]
InitCrawlService ==
    /\ CatInit /\ ValidatorInit /\ batch_counter = 0 /\ BatchInit
    /\ uniqueServerId = FALSE
    /\ RetryInit /\ ExtractInit /\ DriverInit
    /\ StatusInit /\ queryCall = NoQuery /\ psCall = NoProcess
    /\ promptBuilder = NoBuilder
    /\ crawl = NoCrawl
    /\ \E a \in RowAges, b \in RowAges :
         serverRows \in {<<>>, <<StoredRow(1, a)>>, <<StoredRow(2, a)>>,
                         <<StoredRow(1, a), StoredRow(2, b)>>,
                         <<StoredRow(2, a), StoredRow(1, b)>>}
    /\ contentRows \in SUBSET {[server_id |-> i, content |-> "stored"] :
                                i \in DOMAIN serverRows}
    /\ svcCall = NoSvcCall
    /\ passCall = NoPass
NextCrawlService == SvcProcessServer
SpecCrawlService == InitCrawlService /\ [][NextCrawlService]_vars

\* ------------- SpecPass: one whole process_batch call on a stored population
\* extractor_service.py:181-293 as one step, on a store that already holds
\* server rows and config rows, followed by a get_servers_to_process call.
\* A fault is the one repository call that raises during the storing loop.
NoFault == [kind |-> "none", s |-> 0]
StoreFaults(B) ==
    {NoFault} \cup [kind : {"insert", "status"}, s : B \cap {1}]

\* the answers tried for k configs: a failure, or every index scored alike
PassResponses(k) ==
    { [kind |-> f, evals |-> <<>>] : f \in {"io_error", "gw_error"} }
    \cup { [kind |-> "ok", evals |-> PipeEvals([i \in 0 .. k - 1 |-> sc], 0, k)] :
              sc \in PipeScores }

\* the stored servers of SpecPass, and the batches tried on a population S:
\* any servers of a small one, a full slice of a large one
PassServers == 1 .. 2
PassBatches(S) ==
    IF S \subseteq PassServers THEN (SUBSET S) \ {{}}
    ELSE { 1 .. n : n \in MAX_BATCH_SIZE .. Cardinality(S) }

\* how the tasks of a batch end: any way for a small batch, and for a large
\* one every task with a config but at most one
PassOutcomes(B) ==
    IF Cardinality(B) <= Cardinality(PassServers) THEN [B -> Outcomes]
    ELSE { [s \in B |-> IF s \in F THEN o ELSE "config"] :
             F \in {{}} \cup {{x} : x \in B},
             o \in Outcomes \ {"config"} }

\* the servers of B in ascending order
RECURSIVE Ascending(_)
Ascending(B) ==
    IF B = {} THEN <<>>
    ELSE LET lo == CHOOSE x \in B : \A y \in B : x <= y
         IN  <<lo>> \o Ascending(B \ {lo})

\* lines 265-291 with the stored config of a rejected server deleted
RECURSIVE store_results_clears_rejected(_, _, _, _)
store_results_clears_rejected(results, st, fault, unique) ==
    IF results = <<>> \/ st.raised THEN st
    ELSE LET r == Head(results)
             kept == IF status_of(r) = "rejected"
                     THEN SelectSeq(st.configs,
                                    LAMBDA row : row.server_id # r.server_id)
                     ELSE st.configs
             cfgs == IF Truthy(r.config) /\ fault # [kind |-> "insert", s |-> r.server_id]
                     THEN Append(kept, [server_id |-> r.server_id, config |-> r.config])
                     ELSE kept
         IN  IF fault = [kind |-> "status", s |-> r.server_id]
             THEN [configs |-> cfgs, servers |-> st.servers, raised |-> TRUE]
             ELSE store_results_clears_rejected(
                    Tail(results),
                    [configs |-> cfgs,
                     servers |-> update_server_status(st.servers, r.server_id,
                                                      status_of(r)),
                     raised |-> FALSE],
                    fault, unique)

\* lines 265-291: the storing loop over the results; st is the store
\* (configs, servers) and whether update_server_status raised
RECURSIVE store_results(_, _, _, _)
store_results(results, st, fault, unique) ==
    IF results = <<>> \/ st.raised THEN st
    ELSE LET r == Head(results)
             has == \E k \in DOMAIN st.configs : st.configs[k].server_id = r.server_id
             insertRaises == \/ fault = [kind |-> "insert", s |-> r.server_id]
                             \/ unique /\ has
             cfgs == IF Truthy(r.config) /\ ~insertRaises
                     THEN Append(st.configs,
                                 [server_id |-> r.server_id, config |-> r.config])
                     ELSE st.configs
         IN  IF fault = [kind |-> "status", s |-> r.server_id]
             THEN [configs |-> cfgs, servers |-> st.servers, raised |-> TRUE]
             ELSE store_results(
                    Tail(results),
                    [configs |-> cfgs,
                     servers |-> update_server_status(st.servers, r.server_id,
                                                      status_of(r)),
                     raised |-> FALSE],
                    fault, unique)

\* lines 220-263 with the validator call skipped for a list it would refuse
batch_results_skips_oversize(servers, t, resp) ==
    LET vr == filter_exceptions(servers, t)
        cfgs == configs_to_validate(vr)
    IN  IF cfgs = <<>> \/ Len(cfgs) > MAX_BATCH_SIZE THEN vr
        ELSE IF validate_batch(cfgs, resp).raised THEN validation_failed(vr)
        ELSE merge_validations(vr, validate_batch(cfgs, resp).verdicts, 0)

\* lines 200-293: the results after extraction and validation
batch_results(servers, t, resp) ==
    LET vr == filter_exceptions(servers, t)
        cfgs == configs_to_validate(vr)
    IN  IF cfgs = <<>> THEN vr
        ELSE IF validate_batch(cfgs, resp).raised THEN validation_failed(vr)
        ELSE merge_validations(vr, validate_batch(cfgs, resp).verdicts, 0)

ProcessBatchPass ==
    /\ ~passCall.done
    /\ \E B \in PassBatches(DOMAIN mcp_servers) :
       \E t \in PassOutcomes(B), fault \in StoreFaults(B) :
       \E resp \in PassResponses(Len(configs_to_validate(
                                      filter_exceptions(Ascending(B), t)))) :
         LET servers == Ascending(B)
             cfgs == configs_to_validate(filter_exceptions(servers, t))
             results == batch_results(servers, t, resp)
             st == store_results(results,
                                 [configs |-> mcp_configs, servers |-> mcp_servers,
                                  raised |-> FALSE],
                                 fault, uniqueServerId)
         IN  /\ IF cfgs = <<>>
                THEN UNCHANGED valVars
                ELSE ValidatorStep(cfgs, resp) /\ vResp' = resp
             /\ mcp_configs' = st.configs
             /\ mcp_servers' = st.servers
             /\ passCall' = [done |-> TRUE, batch |-> B, task |-> t, fault |-> fault,
                             raised |-> st.raised,
                             results |-> IF st.raised THEN <<>> ELSE results,
                             configs |-> mcp_configs, servers |-> mcp_servers]
    /\ UNCHANGED <<catVars, dbStatus, writeLog, uniqueServerId, batchVars, retryVars,
                   extractVars, driverVars, statusCall, queryCall, psCall,
                   promptBuilder, crawl, serverRows, contentRows, svcCall>>

\* a later run of the loader (run_extractor.py:285)
QueryAfterPass ==
    /\ passCall.done
    /\ ~queryCall.done
    /\ \E limit \in {NoLimit, 1} :
         \E R \in get_servers_to_process(mcp_servers, limit) :
             queryCall' = [done |-> TRUE, limit |-> limit, result |-> R]
    /\ UNCHANGED <<catVars, valVars, storeVars, batchVars, retryVars,
                   extractVars, driverVars, statusVars, psCall, promptBuilder,
                   crawl, svcVars>>

\* the store before the call: each server approved or rejected by the
\* crawler or left pending by an earlier pass, some with a config row
InitPass ==
    /\ CatInit /\ ValidatorInit /\ batch_counter = 0 /\ BatchStateInit
    /\ RetryInit /\ ExtractInit /\ DriverInit
    /\ mcp_configs \in { ConfigRows(2, C) : C \in SUBSET PassServers }
    /\ dbStatus = [s \in AllServers |-> "pending"]
    /\ writeLog = <<>>
    /\ uniqueServerId \in BOOLEAN
    /\ mcp_servers \in { [s \in PassServers |-> ServerRow(f[s], s)] :
                          f \in [PassServers -> ServerStatuses] }
    /\ statusCall = NoCall
    /\ queryCall = NoQuery
    /\ psCall = NoProcess
    /\ ToolsInit
NextPass == ProcessBatchPass \/ QueryAfterPass
SpecPass == InitPass /\ [][NextPass]_vars

\* ---------------- SpecOversize: a batch larger than the validator accepts
\* batch_size is configuration (config.py:53-56) and run_extractor.py:304-317
\* hands process_batch slices of that size; the servers are fresh from the
\* crawl: approved, without a config row.
OversizeServers == 1 .. MAX_BATCH_SIZE + 2
InitOversize ==
    /\ CatInit /\ ValidatorInit /\ batch_counter = 0 /\ BatchInit
    /\ uniqueServerId = FALSE
    /\ RetryInit /\ ExtractInit /\ DriverInit
    /\ mcp_servers = [s \in OversizeServers |-> ServerRow("approved", s)]
    /\ statusCall = NoCall
    /\ queryCall = NoQuery
    /\ psCall = NoProcess
    /\ ToolsInit
SpecOversize == InitOversize /\ [][NextPass]_vars

\* ======================================================================
\* Claims about the validator
\* ======================================================================
Statuses == {"approved", "needs_review", "rejected"}

\* C2: _categorize_by_score(s) is approved iff s >= 7.0, needs_review iff
\* 5.0 <= s < 7.0, rejected iff s < 5.0; always exactly one of the three.
C2_CategorizeThresholds ==
    catStatus # "none" =>
        /\ catStatus \in Statuses
        /\ (catStatus = "approved") <=> (catScore >= 70000)
        /\ (catStatus = "needs_review") <=> (50000 <= catScore /\ catScore < 70000)
        /\ (catStatus = "rejected") <=> (catScore < 50000)

C2_Witness == catScore = 69990 /\ catStatus = "needs_review"

\* C3: a validate_batch call with more than 10 configs raises and leaves
\* the gateway call count, the batch counter and the prompt files as they
\* were.
C3_OversizeNoSideEffect ==
    [][(validatorCalls' = validatorCalls + 1 /\ Len(vIn') > 10) =>
          /\ vOut'.raised
          /\ gatewayCalls' = gatewayCalls
          /\ batch_counter' = batch_counter
          /\ promptFiles' = promptFiles]_vars

C3_Witness ==
    validatorCalls = 1 /\ Len(vIn) = 11 /\ vOut.raised /\ gatewayCalls = 0

\* C4: when the model call fails or its response is not recoverable JSON,
\* validate_batch returns len(configs) verdicts, all needs_review with
\* score -1.0, confidence 0.5 and an issue naming the failure.
CallFailureKinds == {"gw_error", "no_json", "bad_json"}

C4_CallFailureDegrades ==
    (validatorCalls = 1 /\ Len(vIn) <= 10 /\ vResp.kind \in CallFailureKinds) =>
        /\ ~vOut.raised
        /\ Len(vOut.verdicts) = Len(vIn)
        /\ \A k \in 1 .. Len(vOut.verdicts) :
             /\ vOut.verdicts[k].status = "needs_review"
             /\ vOut.verdicts[k].score = -10000
             /\ vOut.verdicts[k].confidence = 5000
             /\ vOut.verdicts[k].issues \in {"validation_error", "invalid_json"}

C4_Witness ==
    /\ validatorCalls = 1 /\ Len(vIn) = 3 /\ vResp.kind = "bad_json"
    /\ Len(vOut.verdicts) = 3

\* position i (0-based) has no evaluation in the response
EvaluationMissing(evals, i) ==
    ~ \E p \in 1 .. Len(evals) : evals[p].hasIndex /\ evals[p].index = i

\* every entry carries an index and a score that can be compared
WellFormed(evals) ==
    \A p \in 1 .. Len(evals) : evals[p].hasIndex /\ evals[p].scoreKind # "bad"

IsMissingVerdict(v) ==
    v.score = 0 /\ v.status = "rejected" /\ v.issues = "missing"

IsFallbackVerdict(v) ==
    v.score = -10000 /\ v.status = "needs_review" /\ v.confidence = 5000

ParsedCall == validatorCalls = 1 /\ Len(vIn) <= 10 /\ vResp.kind = "ok"

\* C5 as stated: every position whose evaluation is missing from the parsed
\* response gets score 0.0, status rejected and the "missing" issue.
C5_MissingAlwaysRejected ==
    ParsedCall =>
        \A i \in 0 .. Len(vIn) - 1 :
            EvaluationMissing(vResp.evals, i) =>
                IsMissingVerdict(vOut.verdicts[i + 1])

\* C5 amended: that holds when every entry of the evaluations array is well
\* formed; otherwise the position may instead carry the whole-batch fallback
\* (needs_review, -1.0).  A missing evaluation is never approved.
C5_MissingRejectedWhenWellFormed ==
    ParsedCall =>
        \A i \in 0 .. Len(vIn) - 1 :
            EvaluationMissing(vResp.evals, i) =>
                /\ WellFormed(vResp.evals) => IsMissingVerdict(vOut.verdicts[i + 1])
                /\ \/ IsMissingVerdict(vOut.verdicts[i + 1])
                   \/ IsFallbackVerdict(vOut.verdicts[i + 1])
                /\ vOut.verdicts[i + 1].status # "approved"

C5_Witness ==
    /\ ParsedCall /\ Len(vIn) = 2 /\ Len(vResp.evals) = 1
    /\ vResp.evals[1].hasIndex /\ vResp.evals[1].index = 0
    /\ vResp.evals[1].scoreKind = "num" /\ vResp.evals[1].score = 70000
    /\ IsMissingVerdict(vOut.verdicts[2])
    /\ vOut.verdicts[1].status = "approved"

\* C6: the verdict list does not depend on the order of the evaluations
\* array when its indices are distinct.
DistinctIndices(evals) ==
    /\ \A p \in 1 .. Len(evals) : evals[p].hasIndex
    /\ \A p, q \in 1 .. Len(evals) : p # q => evals[p].index # evals[q].index

IndexPermutations(n) ==
    { f \in [1 .. n -> 1 .. n] : \A a, b \in 1 .. n : a # b => f[a] # f[b] }

C6_OrderIndependent ==
    (ParsedCall /\ DistinctIndices(vResp.evals)) =>
        \A f \in IndexPermutations(Len(vResp.evals)) :
            LET permuted == [p \in 1 .. Len(vResp.evals) |-> vResp.evals[f[p]]]
                again == validate_batch(vIn, [kind |-> "ok", evals |-> permuted])
            IN again.raised = vOut.raised /\ again.verdicts = vOut.verdicts

C6_Witness ==
    /\ ParsedCall /\ Len(vIn) = 2 /\ Len(vResp.evals) = 2
    /\ vResp.evals[1].hasIndex /\ vResp.evals[1].index = 1
    /\ vResp.evals[2].hasIndex /\ vResp.evals[2].index = 0
    /\ vOut.verdicts[1].status = "rejected" /\ vOut.verdicts[1].issues = "llm"
    /\ vOut.verdicts[2].status = "approved"

\* ======================================================================
\* Claims about process_batch
\* ======================================================================
InBatch(s) == \E k \in 1 .. Len(batch) : batch[k] = s

\* positions of server s in the returned list
ReturnedAt(s) == { k \in 1 .. Len(returned) : returned[k].server_id = s }

\* a config row for s was inserted (the table starts empty)
ConfigWritten(s) == \E k \in 1 .. Len(mcp_configs) : mcp_configs[k].server_id = s

ConfigWriteAttempted(s) ==
    \E k \in 1 .. Len(writeLog) :
        writeLog[k] \in {<<"config", s>>, <<"config_failed", s>>}

\* C1: after process_batch returns, a config row was written for a server
\* in this pass iff its final verdict is not rejected; a rejected item has
\* config None in the result and no config write was made for it.
C1_ConfigIffNotRejected ==
    pc = "returned" =>
        \A k \in 1 .. Len(returned) :
            returned[k].status \in Statuses =>
                /\ ConfigWritten(returned[k].server_id)
                      <=> (returned[k].status # "rejected")
                /\ returned[k].status = "rejected" =>
                      /\ returned[k].config = NoneCfg
                      /\ ~ConfigWriteAttempted(returned[k].server_id)

\* C7: servers whose task raised are absent from the returned list, every
\* other server of the batch is in it exactly once, and only a failed
\* status write makes process_batch raise.
C7_FailureIsolation ==
    /\ pc = "returned" =>
          \A s \in AllServers :
              /\ (InBatch(s) /\ task[s] = "raise") => ReturnedAt(s) = {}
              /\ (InBatch(s) /\ task[s] # "raise") => Cardinality(ReturnedAt(s)) = 1
              /\ ~InBatch(s) => ReturnedAt(s) = {}
    /\ pc = "raised" =>
          /\ writeLog # <<>>
          /\ writeLog[Len(writeLog)][1] = "status_failed"

C7_Witness ==
    /\ pc = "returned" /\ Len(batch) = 3
    /\ task[1] = "config" /\ task[2] = "raise" /\ task[3] = "error"
    /\ Len(returned) = 2
    /\ returned[1].server_id = 1 /\ returned[2].server_id = 3

\* C8: every server whose extraction produced no config ends with
\* extraction status rejected and stored status rejected.
C8_NoConfigIsRejected ==
    pc = "returned" =>
        \A s \in AllServers :
            (InBatch(s) /\ task[s] = "error") =>
                /\ \E k \in ReturnedAt(s) : returned[k].status = "rejected"
                /\ dbStatus[s] = "rejected"

\* C9: every server of the batch is in the returned list exactly once with
\* a status among approved, needs_review, rejected.
C9_OneTerminalOutcome ==
    pc = "returned" =>
        \A s \in AllServers :
            InBatch(s) =>
                /\ Cardinality(ReturnedAt(s)) = 1
                /\ \A k \in ReturnedAt(s) : returned[k].status \in Statuses

\* C10: the validator is called once when some surviving result has a
\* config and not at all otherwise, with exactly those configs, in order.
ConfigBearing == SelectSeq(batch, LAMBDA s : task[s] = "config")

C10_ValidatorCalledOnce ==
    /\ validatorCalls <= 1
    /\ gatewayCalls <= 1
    /\ pc \in {"idle", "gathering", "filtered"} => validatorCalls = 0
    /\ pc \in {"persist", "returned", "raised"} =>
          /\ validatorCalls = (IF ConfigBearing = <<>> THEN 0 ELSE 1)
          /\ vIn = ConfigBearing

C10_Witness ==
    /\ pc = "returned" /\ Len(batch) = 3
    /\ task[1] = "config" /\ task[2] = "error" /\ task[3] = "config"
    /\ validatorCalls = 1 /\ vIn = <<1, 3>>

AfterValidation == pc \in {"persist", "returned", "raised"}

\* positions of server s in valid_results
ResultAt(s) == { j \in 1 .. Len(valid_results) : valid_results[j].server_id = s }

SameVerdict(r, v) ==
    /\ r.status = v.status /\ r.score = v.score /\ r.confidence = v.confidence
    /\ r.issues = v.issues /\ r.warnings = v.warnings

\* C11: whatever the order in which the tasks ended, the k-th verdict is
\* merged into the result of the server whose config was the k-th element
\* of the validator's input, results of other servers carry no verdict of
\* the validator, and the results are in input order.
C11_VerdictsFollowInput ==
    /\ \A i, j \in 1 .. Len(valid_results) :
          i < j => valid_results[i].server_id < valid_results[j].server_id
    /\ (AfterValidation /\ validatorCalls = 1 /\ ~vOut.raised) =>
          /\ Len(vOut.verdicts) = Len(vIn)
          /\ \A k \in 1 .. Len(vIn) :
                /\ Cardinality(ResultAt(vIn[k])) = 1
                /\ \A j \in ResultAt(vIn[k]) :
                      SameVerdict(valid_results[j], vOut.verdicts[k])
          /\ \A j \in 1 .. Len(valid_results) :
                (\A k \in 1 .. Len(vIn) : vIn[k] # valid_results[j].server_id) =>
                    /\ valid_results[j].issues = "extraction_failed"
                    /\ valid_results[j].status = "rejected"

C11_Witness ==
    /\ pc = "returned" /\ completionOrder = <<3, 2, 1>>
    /\ task[1] = "config" /\ task[2] = "error" /\ task[3] = "config"
    /\ vIn = <<1, 3>> /\ ~vOut.raised
    /\ vOut.verdicts[1].status = "approved" /\ vOut.verdicts[2].status = "needs_review"
    /\ returned[1].status = "approved" /\ returned[3].status = "needs_review"
    /\ returned[2].issues = "extraction_failed"

ValidatorRaised == validatorCalls = 1 /\ vOut.raised

NoStoreFailure ==
    \A k \in 1 .. Len(writeLog) : writeLog[k][1] \in {"config", "status"}

\* C12: when the validator call raises, every result with a config is
\* needs_review with score -1.0 and confidence 0.5 and keeps its config;
\* process_batch goes on to store it: the config row is written and the
\* stored status is pending (the store accepting the writes).
C12_ValidatorRaiseDegrades ==
    ValidatorRaised =>
        /\ \A j \in 1 .. Len(valid_results) :
              task[valid_results[j].server_id] = "config" =>
                  /\ valid_results[j].status = "needs_review"
                  /\ valid_results[j].score = -10000
                  /\ valid_results[j].confidence = 5000
                  /\ valid_results[j].config = valid_results[j].server_id
        /\ AfterValidation
        /\ NoStoreFailure => pc # "raised"
        /\ (pc = "returned" /\ NoStoreFailure) =>
              /\ returned = valid_results
              /\ \A j \in 1 .. Len(returned) :
                    task[returned[j].server_id] = "config" =>
                        /\ \E k \in 1 .. Len(mcp_configs) :
                              mcp_configs[k] = [server_id |-> returned[j].server_id,
                                                config |-> returned[j].server_id]
                        /\ dbStatus[returned[j].server_id] = "pending"

C12_Witness ==
    /\ pc = "returned" /\ ValidatorRaised /\ NoStoreFailure
    /\ Len(batch) = 2 /\ task[1] = "error" /\ task[2] = "config"
    /\ returned[2].status = "needs_review" /\ returned[2].config = 2
    /\ HasConfigRow(2) /\ dbStatus[2] = "pending"

\* rows of mcp_configs that belong to server s
RowsOf(s) == { k \in 1 .. Len(mcp_configs) : mcp_configs[k].server_id = s }

\* C13: storing the same approved result twice leaves exactly one config
\* row for the server, and neither write reports an error.
C13_PersistTwiceIsUpsert ==
    (pc = "returned" /\ persistRuns = 2) =>
        \A j \in 1 .. Len(returned) :
            (/\ returned[j].status = "approved"
             /\ writeLog[1] = <<"config", returned[j].server_id>>) =>
                /\ Cardinality(RowsOf(returned[j].server_id)) = 1
                /\ \A k \in 1 .. Len(writeLog) :
                      writeLog[k] # <<"config_failed", returned[j].server_id>>

\* C14: a failed store write ends process_batch with that error: it is the
\* last write of the pass and process_batch has raised.
C14_StoreErrorPropagates ==
    \A k \in 1 .. Len(writeLog) :
        writeLog[k][1] \in {"config_failed", "status_failed"} =>
            /\ k = Len(writeLog)
            /\ pc = "raised"

\* ======================================================================
\* Claims about the retry decorators
\* ======================================================================
NoSuccessBefore(k) == \A a \in 1 .. k - 1 : attemptLog[a] # "ok"

\* C15: a provider's create_completion makes at most 3 attempts, stops at
\* the first success, and after 3 failed attempts reports failure.
C15_AtMostThreeAttempts ==
    /\ Len(attemptLog) <= 3
    /\ NoSuccessBefore(Len(attemptLog))
    /\ retryPc = "returned" <=>
          (attemptLog # <<>> /\ attemptLog[Len(attemptLog)] = "ok")
    /\ retryPc = "returned" => retryResult = "response"
    /\ retryPc = "failed" <=>
          (Len(attemptLog) = 3 /\ \A a \in 1 .. 3 : attemptLog[a] # "ok")
    /\ (retryPc = "failed" /\ ~reraise) => retryResult = "RetryError"
    /\ retryPc = "calling" => Len(attemptLog) < 3

C15_Witness ==
    /\ ~reraise /\ retryPc = "failed" /\ retryResult = "RetryError"
    /\ attemptLog = <<"timeout", "rate_limit", "api_error">>

\* C16: an attempt that fails with a non-retryable error is the only
\* attempt, and the call has failed.
C16_NonRetryableNotRetried ==
    \A a \in 1 .. Len(attemptLog) :
        attemptLog[a] \in NonRetryableErrors =>
            /\ Len(attemptLog) = 1
            /\ retryPc = "failed"

\* ======================================================================
\* Claims about the extractor
\* ======================================================================
\* C17: extract_config never raises: it gives a parsed config carrying
\* _llm_metadata, or an error variant with error and
\* requires_manual_review = True.
C17_ExtractConfigNeverRaises ==
    exGateway # "none" =>
        /\ exResult.kind \in {"config", "error"}
        /\ exResult.kind = "config" =>
              exResult.metadata /\ exResult.error = "none"
        /\ exResult.kind = "error" =>
              /\ exResult.error # "none"
              /\ exResult.requires_manual_review
              /\ ~exResult.metadata
        /\ exGateway # "response" => exResult.kind = "error"

C17_Witness ==
    /\ exGateway = "response"
    /\ exText = <<"x", "x">>
    /\ exResult.kind = "error"

BraceThenClose(t) ==
    \E i, j \in 1 .. Len(t) : i < j /\ t[i] = "{" /\ t[j] = "}"
NoBraces(t) == \A i \in 1 .. Len(t) : t[i] \notin {"{", "}"}
FirstOpen(t) ==
    CHOOSE i \in 1 .. Len(t) : t[i] = "{" /\ \A j \in 1 .. i - 1 : t[j] # "{"
LastClose(t) ==
    CHOOSE i \in 1 .. Len(t) :
        t[i] = "}" /\ \A j \in i + 1 .. Len(t) : t[j] # "}"

\* C18: for a text with a '{' followed later by a '}',
\* extract_json_from_text gives the substring from the first '{' to the
\* last '}'; for a text with no braces it fails with ValueError; every call
\* on the same text gives the same.
C18_RecoversEmbeddedJson ==
    \A k \in 1 .. Len(jsonCalls) :
        /\ BraceThenClose(exText) =>
              jsonCalls[k] =
                [ok |-> TRUE,
                 text |-> SubSeq(exText, FirstOpen(exText), LastClose(exText))]
        /\ NoBraces(exText) => jsonCalls[k] = ValueError
        /\ jsonCalls[k] = jsonCalls[1]

C18_Witness ==
    /\ exText = FenceJson \o <<"{", "}">> \o Fence
    /\ Len(jsonCalls) = 2
    /\ jsonCalls[2] = [ok |-> TRUE, text |-> <<"{", "}">>]

\* ======================================================================
\* Claims about the driver
\* ======================================================================
\* C19: batches run strictly one after the other: every event of batch
\* N+1 comes after process_batch has returned for batch N, and no event
\* of a batch comes after its return.
C19_BatchesSequential ==
    \A b \in 1 .. Len(eventLog) :
        /\ eventLog[b].batch > 1 =>
              \E a \in 1 .. b - 1 :
                  eventLog[a] = [batch |-> eventLog[b].batch - 1,
                                 kind |-> "returned"]
        /\ \A a \in 1 .. b - 1 :
              /\ eventLog[a].batch <= eventLog[b].batch
              /\ eventLog[a].kind = "returned" =>
                    eventLog[a].batch < eventLog[b].batch

C19_Witness ==
    \E a, b \in 1 .. Len(eventLog) :
        /\ a < b
        /\ eventLog[a] = [batch |-> 1, kind |-> "status_write"]
        /\ eventLog[b] = [batch |-> 2, kind |-> "config_write"]

\* ======================================================================
\* Claims about the verdicts' ranges
\* ======================================================================
ScoreInRange(v) == v.score >= 0 /\ v.score <= 100000
ConfidenceInRange(v) == v.confidence >= 0 /\ v.confidence <= 10000

\* C20: every verdict of validate_batch has a status of the three, a score
\* in [0,10] or the sentinel -1.0 (on a failed call only), and a confidence
\* in [0,1] that is score/10 unless the verdict is the fallback.
C20_VerdictsWellFormed ==
    (validatorCalls = 1 /\ ~vOut.raised) =>
        \A i \in 1 .. Len(vOut.verdicts) :
            LET v == vOut.verdicts[i] IN
            /\ v.status \in Statuses
            /\ \/ ScoreInRange(v)
               \/ v.score = FALLBACK_SCORE /\ vResp.kind \in CallFailureKinds
            /\ ConfidenceInRange(v)
            /\ v.score # FALLBACK_SCORE => v.confidence = v.score \div 10

\* ======================================================================
\* Claims about the store interface
\* ======================================================================
\* C21: update_server_status stores approved for approved, pending for
\* needs_review, rejected for rejected and pending for anything else; it
\* changes the status of the given server only.
C21_StatusMapping ==
    statusCall # NoCall =>
        LET s == statusCall.server_id
            vs == statusCall.validation_status
        IN  /\ vs = "approved" => mcp_servers[s].status = "approved"
            /\ vs = "needs_review" => mcp_servers[s].status = "pending"
            /\ vs = "rejected" => mcp_servers[s].status = "rejected"
            /\ vs \notin {"approved", "needs_review", "rejected"} =>
                  mcp_servers[s].status = "pending"
            /\ mcp_servers[s].slug = statusCall.before[s].slug
            /\ \A o \in AllServers \ {s} : mcp_servers[o] = statusCall.before[o]

C21_Witness ==
    /\ statusCall # NoCall
    /\ statusCall.validation_status = "unknown"
    /\ statusCall.before[statusCall.server_id].status = "approved"
    /\ mcp_servers[statusCall.server_id].status = "pending"
    /\ \E o \in AllServers : o # statusCall.server_id /\ mcp_servers[o].status = "rejected"

\* C22: get_servers_to_process gives exactly the servers with no config row
\* and a status other than rejected, at most `limit` of them when a limit
\* is given; a server with a config row is never given.
C22_ExactlyUnconfigured ==
    queryCall.done =>
        /\ queryCall.result \subseteq Unconfigured(mcp_servers)
        /\ \A s \in queryCall.result : ~HasConfigRow(s)
        /\ queryCall.limit = NoLimit =>
              queryCall.result = Unconfigured(mcp_servers)
        /\ queryCall.limit # NoLimit =>
              /\ Cardinality(queryCall.result) <= queryCall.limit
              /\ \/ Cardinality(queryCall.result) = queryCall.limit
                 \/ queryCall.result = Unconfigured(mcp_servers)

\* ======================================================================
\* Claims about process_server
\* ======================================================================
ExtractionFailed(call) ==
    \/ call.prompt = "raises"
    \/ call.extraction \in {"raises", "error_variant", "object_with_error"}

\* C23: for a record with server_id and github_url, process_server never
\* raises; a failed prompt or extraction gives config None and an error,
\* a successful extraction gives the same server_id, a config that is not
\* None and no error key.
C23_ProcessServerNeverRaises ==
    (psCall.done /\ psCall.hasKeys) =>
        /\ ~psCall.raised
        /\ psCall.result.server_id = psCall.server_id
        /\ ExtractionFailed(psCall) =>
              psCall.result.config = NoneCfg /\ psCall.result.error
        /\ ~ExtractionFailed(psCall) =>
              psCall.result.config # NoneCfg /\ ~psCall.result.error

C23_Witness ==
    /\ psCall.done /\ psCall.hasKeys
    /\ psCall.prompt = "raises"
    /\ ~psCall.raised
    /\ psCall.result.config = NoneCfg /\ psCall.result.error

\* ======================================================================
\* Claims about the persistence step
\* ======================================================================
ConfigEntry(e) == e[1] \in {"config", "config_failed"}
StatusEntry(e) == e[1] \in {"status", "status_failed"}
StatusEntries == SelectSeq(writeLog, StatusEntry)

\* C24: the persistence step writes item by item in result order; an
\* item's config write comes right before its own status write, never
\* after it.
C24_ConfigBeforeStatus ==
    pc \in {"persist", "returned", "raised"} =>
        /\ Len(StatusEntries) <= Len(valid_results)
        /\ \A k \in 1 .. Len(StatusEntries) :
              StatusEntries[k][2] = valid_results[k].server_id
        /\ \A a \in 1 .. Len(writeLog) :
              /\ ConfigEntry(writeLog[a]) =>
                    /\ \A b \in 1 .. a - 1 : writeLog[b][2] # writeLog[a][2]
                    /\ a < Len(writeLog) =>
                          /\ StatusEntry(writeLog[a + 1])
                          /\ writeLog[a + 1][2] = writeLog[a][2]
              /\ (StatusEntry(writeLog[a])
                    /\ \E k \in 1 .. Len(valid_results) :
                          /\ valid_results[k].server_id = writeLog[a][2]
                          /\ Truthy(valid_results[k].config)) =>
                    /\ a > 1
                    /\ ConfigEntry(writeLog[a - 1])
                    /\ writeLog[a - 1][2] = writeLog[a][2]

C24_Witness ==
    /\ pc = "returned"
    /\ writeLog = <<<<"config", 1>>, <<"status", 1>>, <<"status", 2>>,
                    <<"config", 3>>, <<"status", 3>>>>

\* C25: no config given to the validator and no config written to the
\* store carries _llm_metadata.
C25_NoMetadataLeaves ==
    /\ \A i \in 1 .. Len(vIn) : ~HasMetadata(vIn[i])
    /\ \A k \in 1 .. Len(mcp_configs) : ~HasMetadata(mcp_configs[k].config)
    /\ \A k \in 1 .. Len(valid_results) : ~HasMetadata(valid_results[k].config)

C25_Witness ==
    /\ validatorCalls = 1
    /\ Len(vIn) = 2
    /\ Len(mcp_configs) = 2
    /\ \A k \in 1 .. 2 : mcp_configs[k].config = mcp_configs[k].server_id

\* ======================================================================
\* Claims about the two retry flavours
\* ======================================================================
LastOutcome == attemptLog[Len(attemptLog)]
BackendErrors == TransientErrors \cup NonRetryableErrors

\* C26: standard_retry and api_retry_no_reraise go the same way up to the
\* third failed attempt; after it standard_retry raises the last attempt's
\* own exception and api_retry_no_reraise does not raise the backend
\* exception (it raises RetryError).
C26_FlavoursDifferAfterThird ==
    attemptLog # <<>> =>
        LET std == retry_decision(Len(attemptLog), LastOutcome, TRUE)
            api == retry_decision(Len(attemptLog), LastOutcome, FALSE)
        IN  /\ std.pc = api.pc
            /\ retryPc = std.pc
            /\ retryResult = IF reraise THEN std.result ELSE api.result
            /\ std.pc # "failed" => std.result = api.result
            /\ std.pc = "failed" =>
                  /\ Len(attemptLog) = 3
                  /\ std.result = LastOutcome
                  /\ std.result \in BackendErrors
                  /\ api.result \notin BackendErrors

C26_Witness ==
    /\ reraise /\ retryPc = "failed"
    /\ attemptLog = <<"timeout", "rate_limit", "api_error">>
    /\ retryResult = "api_error"

\* ======================================================================
\* Claims about the stages of a pass
\* ======================================================================
TasksInFlight == { s \in AllServers : task[s] = "running" }
ValidationInFlight == pc = "validating"

\* C27: the tasks of a batch start together; the validation call starts
\* only when every task has ended; the first store write comes only when
\* the validation call has ended; no store write while a model call of
\* the batch is in flight.
C27_StagesDoNotOverlap ==
    /\ pc = "gathering" =>
          \A k \in 1 .. Len(batch) : task[batch[k]] \in Outcomes \cup {"running"}
    /\ ValidationInFlight => TasksInFlight = {} /\ writeLog = <<>>
    /\ validatorCalls > 0 => TasksInFlight = {}
    /\ writeLog # <<>> => TasksInFlight = {} /\ ~ValidationInFlight
    /\ (writeLog # <<>> /\ configs_to_validate(filter_exceptions(batch, task)) # <<>>)
          => validatorCalls = 1
    /\ pc \in {"filtered", "validating", "persist"} => TasksInFlight = {}

C27_Witness ==
    /\ pc = "gathering"
    /\ Cardinality(TasksInFlight) = 2
    /\ Len(completionOrder) = 1

\* ======================================================================
\* Claims about the prompt builder
\* ======================================================================
\* C28: a template with a field the builder does not supply makes the
\* construction fail; a constructed builder never fails a build for a
\* missing field.
C28_MissingFieldFailsFast ==
    /\ ~(promptBuilder.template \subseteq SuppliedFields) =>
          promptBuilder.state # "constructed"
    /\ promptBuilder.build # "KeyError"

\* ======================================================================
\* Claims about error reporting of the extractor and the crawler
\* ======================================================================
\* C29: whenever the response text cannot be turned into a JSON object,
\* the error variant of extract_config carries a raw-response snippet.
C29_SnippetOnEveryParseFailure ==
    (exGateway = "response" /\ exResult.kind = "error") => exResult.raw_response

FetchFailed(o) == o.kind # "ok"

\* C30: when fetch_repo_data fails, fetch_repo_data_with_retry tries
\* again, up to 3 attempts, and gives the error dict only after the last.
C30_FetchIsRetried ==
    /\ (crawl.log # <<>> /\ Len(crawl.log) < 3
          /\ \A a \in 1 .. Len(crawl.log) : FetchFailed(crawl.log[a]))
          => crawl.pc = "calling"
    /\ crawl.result = "error_dict" => Len(crawl.log) = 3

\* ======================================================================
\* Claims about the crawler service (SpecCrawlService)

\* the row the call found was updated fewer than 7 days (14 half days) ago
CalledOnRecentRow ==
    /\ svcCall.done
    /\ svcCall.existing # 0
    /\ svcCall.servers[svcCall.existing].updated_at \in 0 .. 13

\* C31: process_server without force_update on a row updated fewer than 7
\* days ago returns 'skipped' with the row's id, makes no crawl call and
\* leaves the server rows and the content rows as they were; with
\* force_update the crawl call is made, no row is added, and a crawl that
\* succeeds and is stored gives 'success' with the same id and the row
\* rewritten in place, every other row untouched.
C31_SkipsRecentUnlessForced ==
    CalledOnRecentRow =>
      IF ~svcCall.force_update
      THEN /\ svcCall.result.status = "skipped"
           /\ svcCall.result.server_id = svcCall.existing
           /\ ~svcCall.crawled
           /\ serverRows = svcCall.servers
           /\ contentRows = svcCall.content
      ELSE /\ svcCall.crawled
           /\ svcCall.result.status # "skipped"
           /\ Len(serverRows) = Len(svcCall.servers)
           /\ \A i \in DOMAIN serverRows :
                i # svcCall.existing => serverRows[i] = svcCall.servers[i]
           /\ (svcCall.repo # "error" /\ svcCall.store = "ok")
                => /\ svcCall.result.status = "success"
                   /\ svcCall.result.server_id = svcCall.existing
                   /\ serverRows[svcCall.existing].data = "crawled"
                   /\ serverRows[svcCall.existing].github_url = svcCall.github_url

\* a row updated six and a half days ago is skipped by a call without force
C31_Witness ==
    /\ CalledOnRecentRow
    /\ ~svcCall.force_update
    /\ svcCall.servers[svcCall.existing].updated_at = 13
    /\ Len(svcCall.servers) = 2
    /\ svcCall.content # {}
    /\ svcCall.result.status = "skipped"

\* the same row is crawled and rewritten by a forced call
C31_ForcedWitness ==
    /\ CalledOnRecentRow
    /\ svcCall.force_update
    /\ svcCall.result.status = "success"
    /\ serverRows[svcCall.existing].data = "crawled"

\* the call made a crawl that came back as an error structure
CrawlFailed == svcCall.done /\ svcCall.crawled /\ svcCall.repo = "error"

\* C32: when the crawl returns an error structure process_server returns
\* 'error' and writes no content row; a row that existed is left as it was
\* with every other row, and when none existed the table is either as it was
\* or has one more row, of that url and status 'rejected'.
C32_CrawlErrorKeepsExisting ==
    CrawlFailed =>
      /\ svcCall.result.status = "error"
      /\ contentRows = svcCall.content
      /\ svcCall.existing # 0 => serverRows = svcCall.servers
      /\ svcCall.existing = 0 =>
           \/ serverRows = svcCall.servers
           \/ /\ Len(serverRows) = Len(svcCall.servers) + 1
              /\ SubSeq(serverRows, 1, Len(svcCall.servers)) = svcCall.servers
              /\ serverRows[Len(serverRows)].github_url = svcCall.github_url
              /\ serverRows[Len(serverRows)].status = "rejected"

\* a failed crawl of an unknown url inserted its row beside a stored one
C32_Witness ==
    /\ CrawlFailed
    /\ svcCall.existing = 0
    /\ svcCall.servers # <<>>
    /\ Len(serverRows) = Len(svcCall.servers) + 1
    /\ serverRows[Len(serverRows)].status = "rejected"

\* a failed forced crawl of a stored url with a README
C32_ExistingWitness ==
    /\ CrawlFailed
    /\ svcCall.existing # 0
    /\ \E c \in svcCall.content : c.server_id = svcCall.existing
    /\ svcCall.result.server_id = svcCall.existing

\* ======================================================================
\* More claims about the validator (SpecValidate)

\* the entries of the answer that carry index i, and the first of them
EntriesWithIndex(i) ==
    {p \in DOMAIN vResp.evals : vResp.evals[p].hasIndex /\ vResp.evals[p].index = i}
FirstWithIndex(i) ==
    CHOOSE p \in EntriesWithIndex(i) : \A q \in EntriesWithIndex(i) : p <= q

\* the answer was parsed, every entry carries an index, and the first entry
\* of each position's index has a usable score
AnswerUsable ==
    /\ vResp.kind = "ok"
    /\ \A p \in DOMAIN vResp.evals : vResp.evals[p].hasIndex
    /\ \A i \in 0 .. Len(vIn) - 1 :
         EntriesWithIndex(i) # {}
           => vResp.evals[FirstWithIndex(i)].scoreKind # "bad"

\* C33: a validate_batch call that returns gives one verdict per config,
\* however many evaluations the model sent.  For a usable answer the k-th
\* verdict is taken from the first entry whose index is k-1 (its score, or 0
\* when it has none), and is the 'missing' verdict when no entry has that
\* index: entries with other indexes, in range or not, change nothing.
C33_OneVerdictPerConfig ==
    (validatorCalls = 1 /\ ~vOut.raised) =>
      /\ Len(vOut.verdicts) = Len(vIn)
      /\ AnswerUsable =>
           \A k \in 1 .. Len(vIn) :
             IF EntriesWithIndex(k - 1) = {}
             THEN vOut.verdicts[k].issues = "missing"
             ELSE LET e == vResp.evals[FirstWithIndex(k - 1)]
                  IN  /\ vOut.verdicts[k].issues = "llm"
                      /\ vOut.verdicts[k].score =
                           (IF e.scoreKind = "num" THEN e.score ELSE MISSING_SCORE)

\* two entries carry index 0: the first one (7.0) is used, the second (0)
\* is not, and the second config gets the 'missing' verdict
C33_Witness ==
    /\ validatorCalls = 1 /\ ~vOut.raised
    /\ Len(vIn) = 2
    /\ Len(vResp.evals) = 2
    /\ AnswerUsable
    /\ EntriesWithIndex(0) = {1, 2}
    /\ vResp.evals[1].score = 70000 /\ vResp.evals[2].score = 0
    /\ vOut.verdicts[1].status = "approved"
    /\ vOut.verdicts[2].issues = "missing"

\* an entry with an index out of range and an unusable score is ignored
C33_OutOfRangeWitness ==
    /\ validatorCalls = 1 /\ ~vOut.raised
    /\ Len(vIn) = 1
    /\ AnswerUsable
    /\ \E p \in DOMAIN vResp.evals :
         vResp.evals[p].index = 2 /\ vResp.evals[p].scoreKind = "bad"
    /\ vOut.verdicts[1].issues = "llm"

\* ======================================================================
\* More claims about the JSON recovery (SpecExtractor)

\* C36: whenever extract_json_from_text returns, the returned text begins
\* with '{' and ends with '}', whatever the input text was.
C36_ResultIsBraced ==
    \A k \in DOMAIN jsonCalls :
      jsonCalls[k].ok =>
        /\ jsonCalls[k].text # <<>>
        /\ Head(jsonCalls[k].text) = "{"
        /\ jsonCalls[k].text[Len(jsonCalls[k].text)] = "}"

\* ======================================================================
\* Claims about a whole pass (SpecOversize, SpecPass)

\* the servers of the batch whose extraction gave a config
PassConfigBearing == {s \in passCall.batch : passCall.task[s] = "config"}

\* the batch gave more configs than validate_batch accepts
OversizedPass == passCall.done /\ Cardinality(PassConfigBearing) > MAX_BATCH_SIZE

\* C35: when more than 10 servers of one batch yield a config the validator
\* is called once, with all of them, and raises on its size check before any
\* gateway call; and when no repository call fails process_batch returns
\* with every config-bearing server 'needs_review', score -1.0, its config
\* kept and written to mcp_configs.
C35_OversizedBatchDegrades ==
    OversizedPass =>
      /\ validatorCalls = 1
      /\ Len(vIn) = Cardinality(PassConfigBearing)
      /\ vOut.raised
      /\ gatewayCalls = 0
      /\ passCall.fault = NoFault =>
           /\ ~passCall.raised
           /\ \A s \in PassConfigBearing :
                /\ \E j \in DOMAIN passCall.results :
                     /\ passCall.results[j].server_id = s
                     /\ passCall.results[j].status = "needs_review"
                     /\ passCall.results[j].score = -10000
                     /\ passCall.results[j].config = s
                /\ \E k \in DOMAIN mcp_configs :
                     mcp_configs[k] = [server_id |-> s, config |-> s]

\* eleven of twelve servers gave a config and all eleven were written
C35_Witness ==
    /\ OversizedPass
    /\ passCall.fault = NoFault
    /\ Cardinality(passCall.batch) = 12
    /\ Cardinality(PassConfigBearing) = 11
    /\ Len(mcp_configs) = 11
    /\ Len(passCall.results) = 12

\* the servers that had a config row before the call
StoredBefore == {passCall.configs[k].server_id : k \in DOMAIN passCall.configs}

\* C37: after a process_batch call, however it ended, the config rows that
\* existed before it are all still there, unchanged and in place, every new
\* row belongs to a server of the batch, and the row of every server
\* outside the batch is as it was; in particular a server of the batch that
\* had a config row and was rejected still has it.
C37_StoredConfigsUntouched ==
    passCall.done =>
      /\ Len(mcp_configs) >= Len(passCall.configs)
      /\ SubSeq(mcp_configs, 1, Len(passCall.configs)) = passCall.configs
      /\ \A k \in DOMAIN mcp_configs :
           k > Len(passCall.configs) => mcp_configs[k].server_id \in passCall.batch
      /\ \A s \in DOMAIN mcp_servers :
           s \notin passCall.batch => mcp_servers[s] = passCall.servers[s]

\* server 1 had a config row, was in the batch and was rejected by the
\* validator; server 2, outside the batch, had one too
C37_Witness ==
    /\ passCall.done
    /\ passCall.batch = {1}
    /\ StoredBefore = {1, 2}
    /\ ~passCall.raised
    /\ passCall.task[1] = "config"
    /\ passCall.results[1].status = "rejected"
    /\ mcp_servers[1].status = "rejected"
    /\ mcp_configs = passCall.configs

\* C34: after process_batch has returned for a batch, a later
\* get_servers_to_process returns no server of that batch.
C34_BatchNotReturnedAgain ==
    (passCall.done /\ ~passCall.raised /\ queryCall.done)
      => queryCall.result \cap passCall.batch = {}
====
